---- MODULE Spec2Model ----
(***************************************************************************)
(* The graph store of backend/services/knowledge_graph_service.py:         *)
(* KnowledgeGraphService keeps generated_nodes, generated_edges and        *)
(* deleted_sample_nodes in memory and mirrors them in the snapshot file    *)
(* generated_graph_data.json.                                              *)
(*                                                                         *)
(* Text is a sequence of one-character strings, so that str.lower,         *)
(* str.strip, str.split and the substring test `in` are computed as        *)
(* Python computes them.  Node and edge ids are strings built by           *)
(* concatenation, as the f-strings of the code build them.                 *)
(***************************************************************************)
EXTENDS Integers, Sequences, FiniteSets, TLC

(***************************************************************************)
(* Bounds of the model.                                                    *)
(***************************************************************************)
\* transcript_id arguments range over None and 0..MaxTid
MaxTid == 1
\* texts 1..MaxText of the table ExtractedData are offered to the imports
MaxText == 2
\* texts 1..MaxTextIO are offered to the imports when saves may fail
MaxTextIO == 1
\* rows 1..MaxSentence of the table Sentence are offered to the extractor
MaxSentence == 12
\* pairs of the rows 1..MaxPair of that table are offered as well
MaxPair == 5
\* texts of 0..MaxFactSentences sentences are offered to extract_facts
MaxFactSentences == 25

\* the largest batch of entities handed to the resolver (SpecIndex)
MaxBatch == 3

\* the most older duplicates one deduplication finds (SpecSync)
MaxDuplicates == 2

\* the latest time of datetime.now() (SpecSync)
MaxNow == 2

\* the most records of a store older than its filler records (SpecDedup)
MaxTail == 3

\* the latest minute of the clock (SpecLoop)
MaxClock == 3

\* the most calls of start_background_sync (SpecLoop)
MaxLoops == 2

\* sync_interval_minutes handed to AutoSyncService (SpecLoop)
SyncIntervalMinutes == 2

\* the longest a sync cycle takes, in minutes (SpecLoop)
MaxCycleMinutes == 1

\* limit=100 of get_recent_conversations and of search_summaries in the
\* deduplication sub-tasks
DedupLimit == 100

\* transcript_id = None (the default of the parameter, and what the
\* /graph/add route passes)
None == -1

(***************************************************************************)
(* Python string operations on sequences of characters.                    *)
(***************************************************************************)
UpperLetters == <<"A","B","C","D","E","F","G","H","I","J","K","L","M",
                  "N","O","P","Q","R","S","T","U","V","W","X","Y","Z">>

LowerLetters == <<"a","b","c","d","e","f","g","h","i","j","k","l","m",
                  "n","o","p","q","r","s","t","u","v","w","x","y","z">>

\* str.lower() on one character
LowerChar(c) ==
    IF \E i \in 1..26 : UpperLetters[i] = c
    THEN LowerLetters[CHOOSE i \in 1..26 : UpperLetters[i] = c]
    ELSE c

\* str.lower()
Lower(s) == [i \in 1..Len(s) |-> LowerChar(s[i])]

IsSpace(c) == c \in {" ", "\t", "\n"}

RECURSIVE LStrip(_)
LStrip(s) ==
    IF s # <<>> /\ IsSpace(Head(s)) THEN LStrip(Tail(s)) ELSE s

RECURSIVE RStrip(_)
RStrip(s) ==
    IF s # <<>> /\ IsSpace(s[Len(s)])
    THEN RStrip(SubSeq(s, 1, Len(s) - 1))
    ELSE s

\* str.strip()
Strip(s) == RStrip(LStrip(s))

\* the first whitespace-free run of s (s does not start with whitespace)
RECURSIVE FirstWord(_)
FirstWord(s) ==
    IF s = <<>> \/ IsSpace(Head(s)) THEN <<>>
    ELSE <<Head(s)>> \o FirstWord(Tail(s))

\* str.split(): the maximal whitespace-free runs, in order
RECURSIVE Split(_)
Split(s) ==
    LET t == LStrip(s)
        w == FirstWord(t)
    IN IF t = <<>> THEN <<>>
       ELSE <<w>> \o Split(SubSeq(t, Len(w) + 1, Len(t)))

\* sub in s
Contains(sub, s) ==
    \E i \in 0..(Len(s) - Len(sub)) : SubSeq(s, i + 1, i + Len(sub)) = sub

(***************************************************************************)
(* The seed graph returned by _get_sample_graph_data.                      *)
(***************************************************************************)
SampleNode(id, label, type) ==
    [id |-> id, label |-> label, type |-> type, source |-> "sample_data"]

SampleEdge(id, source, target, type) ==
    [id |-> id, source |-> source, target |-> target, type |-> type,
     origin |-> "sample_data"]

SampleNodes == <<
    SampleNode("tim_cook", <<"T","i","m"," ","C","o","o","k">>, "PERSON"),
    SampleNode("apple", <<"A","p","p","l","e"," ","I","n","c">>, "ORGANIZATION"),
    SampleNode("cupertino", <<"C","u","p","e","r","t","i","n","o">>, "LOCATION"),
    SampleNode("elon_musk", <<"E","l","o","n"," ","M","u","s","k">>, "PERSON"),
    SampleNode("spacex", <<"S","p","a","c","e","X">>, "ORGANIZATION"),
    SampleNode("tesla", <<"T","e","s","l","a">>, "ORGANIZATION"),
    SampleNode("mark_zuckerberg",
               <<"M","a","r","k"," ","Z","u","c","k","e","r","b","e","r","g">>,
               "PERSON"),
    SampleNode("meta", <<"M","e","t","a">>, "ORGANIZATION"),
    SampleNode("facebook", <<"F","a","c","e","b","o","o","k">>, "TECHNOLOGY"),
    SampleNode("instagram", <<"I","n","s","t","a","g","r","a","m">>, "TECHNOLOGY"),
    SampleNode("harvard_generated",
               <<"H","a","r","v","a","r","d"," ","U","n","i","v","e","r","s","i","t","y">>,
               "ORGANIZATION"),
    SampleNode("research_generated",
               <<"A","c","a","d","e","m","i","c"," ","R","e","s","e","a","r","c","h">>,
               "CONCEPT"),
    SampleNode("education_generated",
               <<"H","i","g","h","e","r"," ","E","d","u","c","a","t","i","o","n">>,
               "CONCEPT") >>

SampleEdges == <<
    SampleEdge("e1", "tim_cook", "apple", "CEO_OF"),
    SampleEdge("e2", "apple", "cupertino", "HEADQUARTERED_IN"),
    SampleEdge("e3", "elon_musk", "spacex", "FOUNDED"),
    SampleEdge("e4", "elon_musk", "tesla", "CEO_OF"),
    SampleEdge("e5", "mark_zuckerberg", "meta", "CEO_OF"),
    SampleEdge("e6", "meta", "facebook", "OWNS"),
    SampleEdge("e7", "meta", "instagram", "OWNS"),
    SampleEdge("e_harvard_1", "harvard_generated", "research_generated", "CONDUCTS"),
    SampleEdge("e_harvard_2", "harvard_generated", "education_generated", "PROVIDES") >>

\* ids of a list of nodes or edges
Ids(items) == {items[i].id : i \in 1..Len(items)}

SampleNodeIds == Ids(SampleNodes)

(***************************************************************************)
(* What extract_entities_and_relationships returns (pattern extraction,    *)
(* then _post_process_entities and _post_process_relationships) on the     *)
(* texts offered to the imports:                                           *)
(*   1  "Elon Musk founded SpaceX."                                        *)
(*   2  "Tim Cook is the CEO of Apple Inc."                                *)
(*   3  "Google is headquartered in California."                           *)
(*   4  "Meta owns Instagram"                                              *)
(*   5  "Satya Nadella leads Microsoft"                                    *)
(*   6  ""                                                                 *)
(***************************************************************************)
Entity(name, type) == [name |-> name, type |-> type]

Relationship(source, target, type) ==
    [source |-> source, target |-> target, type |-> type]

ExtractedData(t) ==
    CASE t = 1 ->
        [entities |-> <<Entity(<<"E","l","o","n"," ","M","u","s","k">>, "PERSON"),
                        Entity(<<"S","p","a","c","e","X">>, "ORGANIZATION")>>,
         relationships |-> <<Relationship(<<"E","l","o","n"," ","M","u","s","k">>,
                                          <<"S","p","a","c","e","X">>, "FOUNDED")>>]
      [] t = 2 ->
        [entities |-> <<Entity(<<"T","i","m"," ","C","o","o","k">>, "PERSON")>>,
         relationships |-> <<Relationship(<<"T","i","m"," ","C","o","o","k">>,
                                          <<"A","p","p","l","e"," ","I","n","c">>,
                                          "CEO_OF")>>]
      [] t = 3 ->
        [entities |-> <<Entity(<<"G","o","o","g","l","e">>, "ORGANIZATION"),
                        Entity(<<"C","a","l","i","f","o","r","n","i","a">>, "LOCATION")>>,
         relationships |-> <<Relationship(<<"G","o","o","g","l","e">>,
                                          <<"C","a","l","i","f","o","r","n","i","a">>,
                                          "HEADQUARTERED_IN")>>]
      [] t = 4 ->
        [entities |-> <<Entity(<<"M","e","t","a"," ","o","w","n","s">>, "PERSON"),
                        Entity(<<"M","e","t","a">>, "ORGANIZATION")>>,
         relationships |-> <<Relationship(<<"M","e","t","a">>,
                                          <<"I","n","s","t","a","g","r","a","m">>,
                                          "OWNS")>>]
      [] t = 5 ->
        [entities |-> <<Entity(<<"S","a","t","y","a"," ","N","a","d","e","l","l","a">>,
                               "PERSON"),
                        Entity(<<"l","e","a","d","s"," ","M","i","c","r","o","s","o","f","t">>,
                               "PERSON"),
                        Entity(<<"M","i","c","r","o","s","o","f","t">>, "ORGANIZATION")>>,
         relationships |-> <<Relationship(<<"S","a","t","y","a"," ","N","a","d","e","l","l","a">>,
                                          <<"M","i","c","r","o","s","o","f","t">>,
                                          "LEADS")>>]
      [] OTHER ->
        [entities |-> <<>>, relationships |-> <<>>]

Texts == 1..MaxText

TextsIO == 1..MaxTextIO

TranscriptIds == {None} \cup 0..MaxTid

(***************************************************************************)
(* generate_graph_from_text: entity resolver, relationship linker, merge.  *)
(***************************************************************************)
\* Python truthiness of the transcript_id argument: None and 0 are falsy
Truthy(tid) == tid # None /\ tid # 0

\* node id of the entity at enumerate index i
NodeId(tid, i) ==
    IF Truthy(tid)
    THEN "extracted_" \o ToString(tid) \o "_" \o ToString(i)
    ELSE "extracted_" \o ToString(i)

\* edge id of the relationship at enumerate index i
EdgeId(tid, i) ==
    IF Truthy(tid)
    THEN "rel_" \o ToString(tid) \o "_" \o ToString(i)
    ELSE "rel_" \o ToString(i)

\* properties.source of the nodes and edges of one import
SourceOf(tid) ==
    IF Truthy(tid) THEN "transcript_" \o ToString(tid) ELSE "text_import"

\* new_nodes: one node per entity whose name is not empty after strip()
NewNodes(entities, tid) ==
    LET all == [i \in 1..Len(entities) |->
                   [id |-> NodeId(tid, i - 1),
                    label |-> Strip(entities[i].name),
                    type |-> entities[i].type,
                    source |-> SourceOf(tid)]]
        Valid(node) == node.label # <<>>
    IN SelectSeq(all, Valid)

\* The dict entity_name_to_id, as the sequence of its items in insertion
\* order; assigning to a key that is present keeps the key's position.
HasKey(index, key) == \E p \in 1..Len(index) : index[p].key = key

\* entity_name_to_id[key] = node_id
IndexPut(index, key, node_id) ==
    IF HasKey(index, key)
    THEN [p \in 1..Len(index) |->
             IF index[p].key = key THEN [key |-> key, id |-> node_id]
             ELSE index[p]]
    ELSE Append(index, [key |-> key, id |-> node_id])

\* AddWordAliases without the test "word not in entity_name_to_id"
RECURSIVE AddWordAliases_Overwrite(_, _, _)
AddWordAliases_Overwrite(index, words, node_id) ==
    IF words = <<>> THEN index
    ELSE LET word == Head(words)
             next == IF Len(word) > 2 THEN IndexPut(index, word, node_id)
                     ELSE index
         IN AddWordAliases_Overwrite(next, Tail(words), node_id)

\* the loop over the words of one label
RECURSIVE AddWordAliases(_, _, _)
AddWordAliases(index, words, node_id) ==
    IF words = <<>> THEN index
    ELSE LET word == Head(words)
             next == IF Len(word) > 2 /\ ~HasKey(index, word)
                     THEN Append(index, [key |-> word, id |-> node_id])
                     ELSE index
         IN AddWordAliases(next, Tail(words), node_id)

\* the loop over new_nodes that fills entity_name_to_id
RECURSIVE BuildNameIndex(_, _)
BuildNameIndex(nodes, index) ==
    IF nodes = <<>> THEN index
    ELSE LET entity_name == Lower(Head(nodes).label)
             withLabel == IndexPut(index, entity_name, Head(nodes).id)
         IN BuildNameIndex(Tail(nodes),
                           AddWordAliases(withLabel, Split(entity_name),
                                          Head(nodes).id))

\* no node resolved: best_source_match / best_target_match is still None
NoMatch == ""

\* twice the score of one index key against the text of one side
\* (len(entity_name) for an exact match, len(entity_name) / 2 otherwise)
Score2(entity_name, text) ==
    IF entity_name = text THEN 2 * Len(entity_name) ELSE Len(entity_name)

\* the scan of entity_name_to_id.items() for one side of a relationship
RECURSIVE BestMatch(_, _, _, _)
BestMatch(index, text, best_score2, best_match) ==
    IF index = <<>> THEN best_match
    ELSE LET entity_name == Head(index).key
             hit == Contains(entity_name, text) \/ Contains(text, entity_name)
             better == hit /\ Score2(entity_name, text) > best_score2
         IN BestMatch(Tail(index), text,
                      IF better THEN Score2(entity_name, text) ELSE best_score2,
                      IF better THEN Head(index).id ELSE best_match)

\* new_edges: one edge per relationship with both sides resolved
NewEdges(relationships, index, tid) ==
    LET all == [i \in 1..Len(relationships) |->
                   [id |-> EdgeId(tid, i - 1),
                    source |-> BestMatch(index, Lower(relationships[i].source),
                                         0, NoMatch),
                    target |-> BestMatch(index, Lower(relationships[i].target),
                                         0, NoMatch),
                    type |-> relationships[i].type,
                    origin |-> SourceOf(tid)]]
        Resolved(edge) == edge.source # NoMatch /\ edge.target # NoMatch
    IN SelectSeq(all, Resolved)

\* _deduplicate_list_by_id, and each half of _deduplicate_generated_data:
\* keep the first item of every id
RECURSIVE DeduplicateListById(_, _)
DeduplicateListById(items, seen_ids) ==
    IF items = <<>> THEN <<>>
    ELSE IF Head(items).id \in seen_ids
         THEN DeduplicateListById(Tail(items), seen_ids)
         ELSE <<Head(items)>> \o
              DeduplicateListById(Tail(items), seen_ids \cup {Head(items).id})

\* MergeById without the membership check and the deduplication pass
MergeById_Append(generated, new_items) == generated \o new_items

\* extend the generated list by the new items whose id is not in it yet,
\* then deduplicate
MergeById(generated, new_items) ==
    LET existing_ids == Ids(generated)
        IsNew(item) == item.id \notin existing_ids
    IN DeduplicateListById(generated \o SelectSeq(new_items, IsNew), {})

(***************************************************************************)
(* Regular expressions as the re module matches them: a pattern is a tree, *)
(* Ends lists the offsets at which a match that starts at offset i can     *)
(* end, in the order in which the backtracking matcher tries them          *)
(* (greedy repetition first, alternatives left to right), so the head of   *)
(* the list is the match re returns.  Every pattern of the extractor is    *)
(* used with re.IGNORECASE or on lower-cased text: the patterns are kept   *)
(* in lower case and are matched against the lower-cased text s, whose     *)
(* offsets are those of the text itself.                                   *)
(***************************************************************************)
\* max(a, b) and min(a, b)
Max(a, b) == IF a >= b THEN a ELSE b

Min(a, b) == IF a <= b THEN a ELSE b

\* the characters of a string literal
Chars(str) == [i \in 1..Len(str) |-> SubSeq(str, i, i)]

Letters == {LowerLetters[i] : i \in 1..26}

Digits == {"0", "1", "2", "3", "4", "5", "6", "7", "8", "9"}

\* \w
WordChars == Letters \cup Digits \cup {"_"}

\* \s
Spaces == {" ", "\t", "\n"}

\* c.isupper() for some character c of s
AnyUpper(s) == \E i \in 1..Len(s) : \E j \in 1..26 : UpperLetters[j] = s[i]

\* a character class, as the set of its lower-case members
ReSet(chars) == [k |-> "set", chars |-> chars]

\* literal text
ReLit(str) == [k |-> "lit", s |-> Lower(Chars(str))]

\* r1 r2 ... rn
ReCat(parts) == [k |-> "cat", parts |-> parts]

\* r1 | r2 | ... | rn
ReAlt(alts) == [k |-> "alt", alts |-> alts]

\* r{min,max}, greedy
ReRep(r, min, max) == [k |-> "rep", r |-> r, min |-> min, max |-> max]

\* no upper limit of a repetition: r+ is r{1,}
Unbounded == -1

\* \b
ReWordBoundary == [k |-> "wb"]

\* $
ReEnd == [k |-> "end"]

\* (?:w1|w2|...|wn) for literal words
ReWords(words) == ReAlt([i \in 1..Len(words) |-> ReLit(words[i])])

\* r?
ReOpt(r) == ReRep(r, 0, 1)

\* \b holds at offset i of s
AtWordBoundary(s, i) ==
    LET before == i >= 1 /\ s[i] \in WordChars
        after == i < Len(s) /\ s[i + 1] \in WordChars
    IN before # after

RECURSIVE Ends(_, _, _), EndsAll(_, _, _), EndsCat(_, _, _), EndsAlt(_, _, _),
          EndsRep(_, _, _, _, _), EndsRepAll(_, _, _, _, _)

\* the ends of re from each of the offsets of starts, in order
EndsAll(re, s, starts) ==
    IF starts = <<>> THEN <<>>
    ELSE IF Len(starts) = 1 THEN Ends(re, s, starts[1])
    ELSE LET half == Len(starts) \div 2
         IN EndsAll(re, s, SubSeq(starts, 1, half))
               \o EndsAll(re, s, SubSeq(starts, half + 1, Len(starts)))

\* the ends of the concatenation of parts from each of the offsets of starts
EndsCat(parts, s, starts) ==
    IF parts = <<>> \/ starts = <<>> THEN starts
    ELSE EndsCat(Tail(parts), s, EndsAll(Head(parts), s, starts))

EndsAlt(alts, s, i) ==
    IF alts = <<>> THEN <<>>
    ELSE Ends(Head(alts), s, i) \o EndsAlt(Tail(alts), s, i)

\* one more repetition is tried before stopping
EndsRep(r, min, max, s, i) ==
    LET more == IF max = 0 THEN <<>>
                ELSE EndsRepAll(r, min - 1,
                                IF max = Unbounded THEN Unbounded ELSE max - 1,
                                s, Ends(r, s, i))
        stop == IF min <= 0 THEN <<i>> ELSE <<>>
    IN more \o stop

EndsRepAll(r, min, max, s, starts) ==
    IF starts = <<>> THEN <<>>
    ELSE EndsRep(r, min, max, s, Head(starts))
            \o EndsRepAll(r, min, max, s, Tail(starts))

\* the repetition of a character class: the longest run of characters of
\* the class is taken first, then one character at a time is given back
EndsRun(chars, min, max, s, i) ==
    LET run == Cardinality({n \in 1..(Len(s) - i) :
                               \A j \in 1..n : s[i + j] \in chars})
        most == IF max = Unbounded THEN run ELSE Min(run, max)
    IN [n \in 1..(most - min + 1) |-> i + most - n + 1]

Ends(re, s, i) ==
    CASE re.k = "set" ->
            IF i < Len(s) /\ s[i + 1] \in re.chars
            THEN <<i + 1>> ELSE <<>>
      [] re.k = "lit" ->
            IF /\ i + Len(re.s) <= Len(s)
               /\ SubSeq(s, i + 1, i + Len(re.s)) = re.s
            THEN <<i + Len(re.s)>> ELSE <<>>
      [] re.k = "wb" -> IF AtWordBoundary(s, i) THEN <<i>> ELSE <<>>
      [] re.k = "end" -> IF i = Len(s) THEN <<i>> ELSE <<>>
      [] re.k = "cat" -> EndsCat(re.parts, s, <<i>>)
      [] re.k = "alt" -> EndsAlt(re.alts, s, i)
      [] re.k = "rep" ->
            IF re.r.k = "set" THEN EndsRun(re.r.chars, re.min, re.max, s, i)
            ELSE EndsRep(re.r, re.min, re.max, s, i)

\* no match
NoSpan == [start |-> -1, end |-> -1]

\* the least element of a non-empty set of numbers
Least(S) == CHOOSE x \in S : \A y \in S : x <= y

\* the offsets of the lower-cased text s at which re matches
MatchStarts(re, s) == {p \in 0..Len(s) : Ends(re, s, p) # <<>>}

\* re.search from offset pos on: the leftmost match, which starts at the
\* least offset of starts that is not below pos
SearchFrom(re, s, starts, pos) ==
    LET later == {p \in starts : p >= pos}
    IN IF later = {} THEN NoSpan
       ELSE [start |-> Least(later), end |-> Head(Ends(re, s, Least(later)))]

\* re.search(re, s)
Search(re, s) == SearchFrom(re, s, MatchStarts(re, s), 0)

\* the matches of re.finditer from offset pos on: from left to right, none
\* overlapping
RECURSIVE FindIterFrom(_, _, _, _)
FindIterFrom(re, s, starts, pos) ==
    LET m == SearchFrom(re, s, starts, pos)
    IN IF m = NoSpan THEN <<>>
       ELSE <<m>> \o FindIterFrom(re, s, starts,
                                  IF m.end > m.start THEN m.end ELSE m.end + 1)

\* re.finditer(re, s)
FindIter(re, s) == FindIterFrom(re, s, MatchStarts(re, s), 0)

\* re.match(re, s) for a lower-case s: a match at offset 0
Matches(re, s) == Ends(re, s, 0) # <<>>

\* match.group()
Group(s, m) == SubSeq(s, m.start + 1, m.end)

(***************************************************************************)
(* RelationshipManager (utils/relationship_manager.py): the pattern        *)
(* extractor.  Confidences are in hundredths.                              *)
(***************************************************************************)
\* [A-Z] and [a-z] under re.IGNORECASE
Letter == ReSet(Letters)

\* [a-zA-Z\s]
LetterOrSpace == ReSet(Letters \cup Spaces)

\* \s
Space == ReSet(Spaces)

\* \w
WordChar == ReSet(WordChars)

\* [A-Z][a-z]{2,max}
Capitalized(max) == ReCat(<<Letter, ReRep(Letter, 2, max)>>)

\* self.entity_patterns, in the order the dict is iterated
entity_patterns == <<
    [type |-> "PERSON", patterns |-> <<
        ReCat(<<ReWordBoundary, Capitalized(15), ReLit(" "), Capitalized(15),
                ReWordBoundary>>),
        ReCat(<<ReWordBoundary, ReWords(<<"Mr", "Mrs", "Ms", "Dr", "Prof">>),
                ReOpt(ReLit(".")), ReRep(Space, 1, Unbounded), Capitalized(15),
                ReOpt(ReCat(<<ReRep(Space, 1, Unbounded), Capitalized(15)>>)),
                ReWordBoundary>>),
        ReCat(<<ReWordBoundary, Capitalized(15), ReLit(" "), Letter, ReLit(". "),
                Capitalized(15), ReWordBoundary>>) >>],
    [type |-> "ORGANIZATION", patterns |-> <<
        ReCat(<<ReWordBoundary, Letter, ReRep(LetterOrSpace, 2, 30),
                ReRep(Space, 1, Unbounded),
                ReWords(<<"Inc", "Corp", "LLC", "Ltd", "Company", "Corporation">>),
                ReWordBoundary>>),
        ReCat(<<ReWordBoundary,
                ReWords(<<"Apple Inc", "Google", "Microsoft", "Amazon", "Facebook",
                          "Meta", "Tesla", "SpaceX", "OpenAI">>),
                ReWordBoundary>>),
        ReCat(<<ReWordBoundary, Letter, ReRep(LetterOrSpace, 2, 20),
                ReRep(Space, 1, Unbounded),
                ReWords(<<"Technologies", "Systems", "Solutions", "Services">>),
                ReWordBoundary>>) >>],
    [type |-> "LOCATION", patterns |-> <<
        ReCat(<<ReWordBoundary, Capitalized(20), ReLit(","),
                ReRep(Space, 1, Unbounded), Capitalized(20), ReWordBoundary>>),
        ReCat(<<ReWordBoundary,
                ReWords(<<"California", "New York", "Texas", "Florida",
                          "Washington", "Cupertino", "Seattle", "Austin">>),
                ReWordBoundary>>),
        ReCat(<<ReWordBoundary, Capitalized(20), ReRep(Space, 1, Unbounded),
                ReWords(<<"City", "County", "State", "Province">>),
                ReWordBoundary>>) >>],
    [type |-> "TECHNOLOGY", patterns |-> <<
        ReCat(<<ReWordBoundary,
                ReAlt(<<ReLit("Artificial Intelligence"), ReLit("Machine Learning"),
                        ReLit("Deep Learning"),
                        ReCat(<<ReLit("Neural Network"), ReOpt(ReLit("s"))>>),
                        ReLit("API"), ReLit("Database")>>),
                ReWordBoundary>>),
        ReCat(<<ReWordBoundary,
                ReWords(<<"Python", "JavaScript", "React", "FastAPI", "Docker",
                          "Kubernetes", "iOS", "Android", "Windows", "macOS">>),
                ReWordBoundary>>),
        ReCat(<<ReWordBoundary, Capitalized(15),
                ReOpt(ReCat(<<ReRep(Space, 1, Unbounded), Capitalized(15)>>)),
                ReRep(Space, 1, Unbounded),
                ReWords(<<"Platform", "Framework", "Library", "SDK">>),
                ReWordBoundary>>) >>] >>

\* the set stop_words of extract_entities
stop_words == {Chars(w) : w \in {
    "the", "a", "an", "and", "or", "but", "in", "on", "at", "to", "for", "of",
    "with", "by", "from", "up", "about", "into", "through", "during", "before",
    "after", "above", "below", "between", "among", "this", "that", "these",
    "those", "i", "me", "my", "myself", "we", "our", "ours", "ourselves", "you",
    "your", "yours", "yourself", "yourselves", "he", "him", "his", "himself",
    "she", "her", "hers", "herself", "it", "its", "itself", "they", "them",
    "their", "theirs", "themselves", "what", "which", "who", "whom", "whose",
    "am", "is", "are", "was", "were", "be", "been", "being", "have", "has",
    "had", "having", "do", "does", "did", "doing", "will", "would", "could",
    "should", "may", "might", "must", "can", "shall", "stale", "smell", "old",
    "beer", "heat", "bring", "out", "cold", "takes", "lingers", "odor", "taste",
    "tastes", "favorite", "pickle", "salt", "the stale", "the ceo",
    "founded spacex", "and tesla", "leads meta", "created amazon",
    "microsoft develops", "windows and", "apple inc"}}

\* the list invalid_patterns of extract_entities
invalid_patterns == <<
    ReCat(<<ReLit("the"), ReRep(Space, 1, Unbounded),
            ReRep(WordChar, 1, Unbounded), ReEnd>>),
    ReCat(<<ReRep(WordChar, 1, Unbounded), ReRep(Space, 1, Unbounded),
            ReLit("and"), ReEnd>>),
    ReCat(<<ReRep(WordChar, 1, Unbounded), ReRep(Space, 1, Unbounded),
            ReWords(<<"develops", "founded", "created", "leads">>), ReEnd>>),
    ReCat(<<ReWords(<<"ceo", "cto", "cfo">>), ReRep(Space, 1, Unbounded),
            ReLit("of"), ReEnd>>) >>

\* any(word in text.lower() for word in words)
ContainsAnyWord(words, text) ==
    \E w \in words : Contains(Chars(w), Lower(text))

\* str.startswith(prefix)
StartsWith(text, prefix) ==
    Len(prefix) <= Len(text) /\ SubSeq(text, 1, Len(prefix)) = prefix

\* _is_meaningful_entity
is_meaningful_entity(text, entity_type) ==
    CASE entity_type = "PERSON" -> AnyUpper(text) /\ Len(Split(text)) <= 3
      [] entity_type = "ORGANIZATION" ->
            /\ AnyUpper(text)
            /\ \/ Len(Split(text)) <= 3
               \/ ContainsAnyWord({"inc", "corp", "ltd", "llc", "company"}, text)
      [] entity_type = "LOCATION" -> AnyUpper(text)
      [] entity_type = "TECHNOLOGY" ->
            /\ Len(text) >= 3
            /\ Lower(text) \notin {Chars("the"), Chars("and"), Chars("or"),
                                   Chars("but")}
      [] OTHER -> TRUE

\* _calculate_confidence, in hundredths
calculate_confidence(text, entity_type) ==
    LET proper == IF AnyUpper(text) THEN 20 ELSE 0
        known ==
            IF entity_type = "PERSON" /\ Len(Split(text)) = 2 THEN 20
            ELSE IF /\ entity_type = "ORGANIZATION"
                    /\ ContainsAnyWord({"inc", "corp", "ltd", "company"}, text)
                 THEN 30
            ELSE IF entity_type = "TECHNOLOGY" /\ Len(text) >= 4 THEN 10
            ELSE 0
        length == IF Len(text) < 3 THEN -20
                  ELSE IF Len(text) > 30 THEN -10 ELSE 0
    IN Min(100, Max(10, 50 + proper + known + length))

\* the filtering criteria of extract_entities on one match
PassesFilters(entity_text, entity_type) ==
    LET entity_lower == Lower(entity_text)
    IN /\ Len(entity_text) > 2
       /\ entity_lower \notin stop_words
       /\ \E i \in 1..Len(entity_text) : entity_text[i] \notin Digits
       /\ Len(Split(entity_text)) <= 4
       /\ \E i \in 1..Len(entity_text) : LowerChar(entity_text[i]) \in Letters
       /\ ~StartsWith(entity_text, Chars("http"))
       /\ ~StartsWith(entity_text, Chars("www"))
       /\ ~StartsWith(entity_text, Chars("ftp"))
       /\ \A p \in 1..Len(invalid_patterns) :
             ~Matches(invalid_patterns[p], entity_lower)
       /\ is_meaningful_entity(entity_text, entity_type)

\* the matches of one pattern as candidates, in order
MatchCandidates(pattern, entity_type, text) ==
    LET matches == FindIter(pattern, Lower(text))
    IN [i \in 1..Len(matches) |->
           [name |-> Strip(Group(text, matches[i])),
            type |-> entity_type,
            position |-> matches[i].start]]

\* the matches of the patterns of one type from the p-th pattern on
RECURSIVE TypeCandidates(_, _, _, _)
TypeCandidates(patterns, p, entity_type, text) ==
    IF p > Len(patterns) THEN <<>>
    ELSE MatchCandidates(patterns[p], entity_type, text)
            \o TypeCandidates(patterns, p + 1, entity_type, text)

\* every match of every pattern, in the order the loops visit them
RECURSIVE Candidates(_, _)
Candidates(t, text) ==
    IF t > Len(entity_patterns) THEN <<>>
    ELSE TypeCandidates(entity_patterns[t].patterns, 1,
                        entity_patterns[t].type, text)
            \o Candidates(t + 1, text)

\* the list entities before the duplicates are removed: the candidates that
\* pass the filters, with their confidence
FilteredEntities(text) ==
    LET Passes(c) == PassesFilters(c.name, c.type)
        kept == SelectSeq(Candidates(1, text), Passes)
    IN [i \in 1..Len(kept) |->
           [id |-> i - 1,
            name |-> kept[i].name,
            type |-> kept[i].type,
            position |-> kept[i].position,
            confidence |-> calculate_confidence(kept[i].name, kept[i].type)]]

\* the last loop of extract_entities: first occurrence of every name, and
\* only entities of confidence >= floor
RECURSIVE UniqueEntities(_, _, _)
UniqueEntities(entities, seen_names, floor) ==
    IF entities = <<>> THEN <<>>
    ELSE LET entity == Head(entities)
             keep == /\ Lower(entity.name) \notin seen_names
                     /\ entity.confidence >= floor
         IN (IF keep THEN <<entity>> ELSE <<>>)
            \o UniqueEntities(Tail(entities),
                              IF keep THEN seen_names \cup {Lower(entity.name)}
                              ELSE seen_names,
                              floor)

\* extract_entities without the confidence threshold
extract_entities_NoFloor(text) == UniqueEntities(FilteredEntities(text), {}, 0)

\* extract_entities
extract_entities(text) == UniqueEntities(FilteredEntities(text), {}, 60)

\* ([A-Z][a-z]+ [A-Z][a-z]+)
TwoWords ==
    ReCat(<<Letter, ReRep(Letter, 1, Unbounded), ReLit(" "), Letter,
            ReRep(Letter, 1, Unbounded)>>)

\* ([A-Z][a-zA-Z\s]+)
Phrase == ReCat(<<Letter, ReRep(LetterOrSpace, 1, Unbounded)>>)

\* ([A-Z][a-z]+)
OneWord == ReCat(<<Letter, ReRep(Letter, 1, Unbounded)>>)

\* one entry of self.relationship_patterns: group 1, the text between the
\* groups, group 2 (which ends the pattern), and the relationship type
RelationshipPattern(source, between, target, type) ==
    [source |-> source, between |-> between, target |-> target, type |-> type]

\* self.relationship_patterns
relationship_patterns == <<
    RelationshipPattern(TwoWords,
                        ReCat(<<ReLit(" is "), ReOpt(ReLit("the ")),
                                ReLit("CEO of ")>>),
                        Phrase, "CEO_OF"),
    RelationshipPattern(TwoWords, ReLit(" works at "), Phrase, "WORKS_AT"),
    RelationshipPattern(Phrase, ReLit(" is headquartered in "), OneWord,
                        "HEADQUARTERED_IN"),
    RelationshipPattern(Phrase, ReLit(" develops "), Phrase, "DEVELOPS"),
    RelationshipPattern(TwoWords, ReLit(" founded "), Phrase, "FOUNDED"),
    RelationshipPattern(TwoWords, ReLit(" leads "), Phrase, "LEADS"),
    RelationshipPattern(TwoWords, ReLit(" created "), Phrase, "CREATED"),
    RelationshipPattern(Phrase, ReLit(" owns "), Phrase, "OWNS"),
    RelationshipPattern(Phrase, ReLit(" uses "), Phrase, "USES"),
    RelationshipPattern(Phrase, ReLit(" is a product of "), Phrase,
                        "PRODUCT_OF") >>

\* the ways group 1 and the text between the groups can match from the ends
\* of group 1 listed in e1s, in backtracking order
RECURSIVE GroupSplits(_, _, _)
GroupSplits(between, s, e1s) ==
    IF e1s = <<>> THEN <<>>
    ELSE IF Len(e1s) = 1
    THEN LET e2s == Ends(between, s, e1s[1])
         IN [j \in 1..Len(e2s) |-> [e1 |-> e1s[1], e2 |-> e2s[j]]]
    ELSE LET half == Len(e1s) \div 2
         IN GroupSplits(between, s, SubSeq(e1s, 1, half))
               \o GroupSplits(between, s, SubSeq(e1s, half + 1, Len(e1s)))

\* no match of a relationship pattern
NoGroups == [start |-> -1, e1 |-> -1, e2 |-> -1, end |-> -1]

\* the match of a relationship pattern at offset pos: group 1 is
\* s[start..e1), group 2 is s[e2..end)
GroupsAt(pattern, s, pos) ==
    LET Completes(split) == Ends(pattern.target, s, split.e2) # <<>>
        splits == SelectSeq(GroupSplits(pattern.between, s,
                                        Ends(pattern.source, s, pos)),
                            Completes)
    IN IF splits = <<>> THEN NoGroups
       ELSE [start |-> pos, e1 |-> Head(splits).e1, e2 |-> Head(splits).e2,
             end |-> Head(Ends(pattern.target, s, Head(splits).e2))]

\* the matches of re.finditer for a relationship pattern from offset pos on;
\* starts are the offsets at which the pattern matches
RECURSIVE FindIterGroupsFrom(_, _, _, _)
FindIterGroupsFrom(pattern, s, starts, pos) ==
    LET later == {p \in starts : p >= pos}
        m == GroupsAt(pattern, s, Least(later))
    IN IF later = {} THEN <<>>
       ELSE <<m>> \o FindIterGroupsFrom(pattern, s, starts, m.end)

\* re.finditer for a relationship pattern
FindIterGroups(pattern, s) ==
    FindIterGroupsFrom(pattern, s,
                       {p \in 0..Len(s) : GroupsAt(pattern, s, p) # NoGroups}, 0)

\* the relationships one pattern contributes
PatternRelationships(pattern, text) ==
    LET matches == FindIterGroups(pattern, Lower(text))
    IN [i \in 1..Len(matches) |->
           [source |-> Strip(SubSeq(text, matches[i].start + 1, matches[i].e1)),
            target |-> Strip(SubSeq(text, matches[i].e2 + 1, matches[i].end)),
            type |-> pattern.type,
            weight |-> 100,
            position |-> matches[i].start,
            confidence |-> 70]]

\* extract_relationships, from the p-th pattern on
RECURSIVE extract_relationships_from(_, _)
extract_relationships_from(p, text) ==
    IF p > Len(relationship_patterns) THEN <<>>
    ELSE PatternRelationships(relationship_patterns[p], text)
            \o extract_relationships_from(p + 1, text)

\* extract_relationships
extract_relationships(text) == extract_relationships_from(1, text)

\* the k-th smallest element of a set of numbers
Nth(S, k) == CHOOSE x \in S : Cardinality({y \in S : y < x}) = k - 1

\* re.split(r'[.!?]+', text): the pieces before, between and after the runs
\* of . ! ? (one piece more than there are runs)
SplitSentences(text) ==
    LET IsMark(i) == text[i] \in {".", "!", "?"}
        run_starts == {i \in 1..Len(text) :
                          IsMark(i) /\ (i = 1 \/ ~IsMark(i - 1))}
        run_ends == {i \in 1..Len(text) :
                        IsMark(i) /\ (i = Len(text) \/ ~IsMark(i + 1))}
        runs == Cardinality(run_starts)
        From(k) == IF k = 1 THEN 1 ELSE Nth(run_ends, k - 1) + 1
        To(k) == IF k = runs + 1 THEN Len(text) ELSE Nth(run_starts, k) - 1
    IN [k \in 1..(runs + 1) |-> SubSeq(text, From(k), To(k))]

\* \bword\b, and \bwords?\b when plural
Indicator(word, plural) ==
    ReCat(<<ReWordBoundary, ReLit(word)>>
          \o (IF plural THEN <<ReOpt(ReLit("s"))>> ELSE <<>>)
          \o <<ReWordBoundary>>)

\* the list factual_indicators of _is_factual_sentence
factual_indicators == <<
    Indicator("is", FALSE), Indicator("are", FALSE), Indicator("was", FALSE),
    Indicator("were", FALSE), Indicator("has", FALSE), Indicator("have", FALSE),
    Indicator("had", FALSE), Indicator("develop", TRUE),
    Indicator("create", TRUE), Indicator("make", TRUE), Indicator("work", TRUE),
    Indicator("headquartered", FALSE), Indicator("located", FALSE) >>

\* _is_factual_sentence
is_factual_sentence(sentence) ==
    \E p \in 1..Len(factual_indicators) :
        Search(factual_indicators[p], Lower(sentence)) # NoSpan

\* the list facts of extract_facts before it is cut
QualifyingSentences(text) ==
    LET pieces == SplitSentences(text)
        sentences == [i \in 1..Len(pieces) |-> Strip(pieces[i])]
        Qualifies(sentence) == Len(sentence) > 10 /\ is_factual_sentence(sentence)
    IN SelectSeq(sentences, Qualifies)

\* list[:n]
Prefix(list, n) == SubSeq(list, 1, Min(Len(list), n))

\* extract_facts with the cut at 21
extract_facts_Cut21(text) == Prefix(QualifyingSentences(text), 21)

\* extract_facts
extract_facts(text) == Prefix(QualifyingSentences(text), 20)

\* enhance_with_nlp when spaCy is not installed: the result of
\* RelationshipManager.extract_entities_and_relationships
enhance_with_nlp(text) ==
    [entities |-> extract_entities(text),
     relationships |-> extract_relationships(text),
     facts |-> extract_facts(text)]

(***************************************************************************)
(* KnowledgeGraphService.extract_entities_and_relationships: the pattern   *)
(* extraction followed by the two post-processing passes.                  *)
(***************************************************************************)
\* str.find(sub): the offset of the first occurrence of sub in s, or -1
Find(sub, s) ==
    IF Contains(sub, s)
    THEN CHOOSE i \in 0..(Len(s) - Len(sub)) :
            /\ SubSeq(s, i + 1, i + Len(sub)) = sub
            /\ \A j \in 0..(i - 1) : SubSeq(s, j + 1, j + Len(sub)) # sub
    ELSE -1

\* str.title() of a lower-case word
Title(word) ==
    [i \in 1..Len(word) |->
        IF i = 1 /\ \E j \in 1..26 : LowerLetters[j] = word[1]
        THEN UpperLetters[CHOOSE j \in 1..26 : LowerLetters[j] = word[1]]
        ELSE word[i]]

\* the entity type after "Fix common misclassifications"
FixedType(entity_name, entity_type) ==
    LET lower == Lower(entity_name)
    IN IF lower \in {Chars("tacos al pastor"), Chars("tacos"), Chars("beer"),
                     Chars("ham"), Chars("pickle"), Chars("salt pickle")}
       THEN "FOOD"
       ELSE IF lower \in {Chars("health"), Chars("zest"), Chars("odor"),
                          Chars("smell")}
       THEN "CONCEPT"
       ELSE IF lower \in {Chars("heat"), Chars("cold"), Chars("dip")}
       THEN "CONDITION"
       ELSE entity_type

\* the first loop of _post_process_entities
RECURSIVE FilterAndImprove(_)
FilterAndImprove(entities) ==
    IF entities = <<>> THEN <<>>
    ELSE LET entity == Head(entities)
             skip == \/ Len(entity.name) < 2
                     \/ Lower(entity.name) \in
                            {Chars("the"), Chars("a"), Chars("an"),
                             Chars("this"), Chars("that")}
         IN (IF skip THEN <<>>
             ELSE <<[name |-> entity.name,
                     type |-> FixedType(entity.name, entity.type),
                     confidence |-> entity.confidence,
                     position |-> entity.position]>>)
            \o FilterAndImprove(Tail(entities))

\* the entity appended when 'harvard' occurs in the text
AddHarvard(processed, text) ==
    IF Contains(Chars("harvard"), Lower(text))
    THEN Append(processed,
                [name |-> Chars("Harvard University"), type |-> "ORGANIZATION",
                 confidence |-> 90,
                 position |-> Find(Chars("harvard"), Lower(text))])
    ELSE processed

\* the loop over food_terms
RECURSIVE AddFoodTerms(_, _, _)
AddFoodTerms(processed, food_terms, text) ==
    IF food_terms = <<>> THEN processed
    ELSE LET term == Chars(Head(food_terms))
             present == Contains(term, Lower(text))
             named == \E i \in 1..Len(processed) : Lower(processed[i].name) = term
         IN AddFoodTerms(
                IF present /\ ~named
                THEN Append(processed,
                            [name |-> Title(term), type |-> "FOOD",
                             confidence |-> 85,
                             position |-> Find(term, Lower(text))])
                ELSE processed,
                Tail(food_terms), text)

\* _post_process_entities
post_process_entities(entities, text) ==
    AddFoodTerms(AddHarvard(FilterAndImprove(entities), text),
                 <<"beer", "ham", "tacos", "pickle">>, text)

\* _post_process_relationships
RECURSIVE post_process_relationships(_, _)
post_process_relationships(relationships, text) ==
    IF relationships = <<>> THEN <<>>
    ELSE LET rel == Head(relationships)
             skip == Len(rel.source) < 2 \/ Len(rel.target) < 2
             rel_type ==
                 IF /\ Contains(Chars("restore"), Lower(text))
                    /\ Contains(Chars("health"), Lower(rel.target))
                 THEN "RESTORES"
                 ELSE IF /\ Contains(Chars("taste"), Lower(text))
                         /\ ContainsAnyWord({"pickle", "ham", "tacos"}, rel.source)
                 THEN "TASTES_WITH"
                 ELSE rel.type
         IN (IF skip THEN <<>>
             ELSE <<[source |-> rel.source, target |-> rel.target,
                     type |-> rel_type, weight |-> rel.weight,
                     confidence |-> rel.confidence]>>)
            \o post_process_relationships(Tail(relationships), text)

\* KnowledgeGraphService.extract_entities_and_relationships
extract_entities_and_relationships(transcript_text) ==
    LET result == enhance_with_nlp(transcript_text)
    IN [entities |-> post_process_entities(result.entities, transcript_text),
        relationships |->
            post_process_relationships(result.relationships, transcript_text),
        facts |-> result.facts]

(***************************************************************************)
(* The snapshot file and the state of one KnowledgeGraphService.           *)
(***************************************************************************)
VARIABLES
    generated_nodes,       \* self.generated_nodes
    generated_edges,       \* self.generated_edges
    deleted_sample_nodes,  \* self.deleted_sample_nodes
    snapshot_file,         \* generated_graph_data.json
    running,               \* the process is up
    transcript_text,       \* the text handed to the extractor (SpecExtract)
    returned,              \* what the call on that text returned
    extracted_entities,    \* extracted_data['entities'] of the call (SpecIndex)
    name_to_id,            \* entity_name_to_id as that call built it
    last_sync,             \* AutoSyncService.last_sync (SpecSync)
    sync_steps,            \* the sub-tasks the last sync cycle has run
    conversation_store,    \* ai_service.collection: the user's records (SpecDedup)
    summary_store,         \* summary_service.collection: the user's records
    is_running,            \* AutoSyncService.is_running (SpecLoop)
    loops,                 \* the calls of start_background_sync
    clock,                 \* datetime.now(), in minutes
    peer_nodes,            \* generated_nodes of a second instance (SpecShared)
    peer_edges,            \* generated_edges of that instance
    peer_deleted           \* deleted_sample_nodes of that instance

\* the variables of the resolver and of the sync service
resolver_vars == <<extracted_entities, name_to_id>>

sync_vars == <<last_sync, sync_steps>>

\* the variables of the stores, of the background loop and of the second
\* KnowledgeGraphService
store_vars == <<conversation_store, summary_store>>

loop_vars == <<is_running, loops, clock>>

peer_vars == <<peer_nodes, peer_edges, peer_deleted>>

other_vars == <<store_vars, loop_vars, peer_vars>>

vars == <<generated_nodes, generated_edges, deleted_sample_nodes,
          snapshot_file, running, transcript_text, returned,
          extracted_entities, name_to_id, last_sync, sync_steps,
          conversation_store, summary_store, is_running, loops, clock,
          peer_nodes, peer_edges, peer_deleted>>

\* The file does not exist, holds a complete JSON document, or holds a
\* truncated one.  The 'deleted_sample_nodes' list is kept as the set it is
\* read back into.
NoFile == [state |-> "missing", nodes |-> <<>>, edges |-> <<>>,
           deleted_sample_nodes |-> {}]

PartialFile == [state |-> "partial", nodes |-> <<>>, edges |-> <<>>,
                deleted_sample_nodes |-> {}]

CompleteFile(nodes, edges, deleted) ==
    [state |-> "complete", nodes |-> nodes, edges |-> edges,
     deleted_sample_nodes |-> deleted]

\* a service state: the three attributes and the file
State(nodes, edges, deleted, file) ==
    [generated_nodes |-> nodes, generated_edges |-> edges,
     deleted_sample_nodes |-> deleted, snapshot_file |-> file]

\* the state the service is in
Current ==
    State(generated_nodes, generated_edges, deleted_sample_nodes, snapshot_file)

\* _save_generated_data with mutation: the attributes are merged into what
\* the file already holds
save_generated_data_Merging(S, io) ==
    [S EXCEPT !.snapshot_file =
        CompleteFile(S.snapshot_file.nodes \o S.generated_nodes,
                     S.snapshot_file.edges \o S.generated_edges,
                     S.snapshot_file.deleted_sample_nodes
                         \cup S.deleted_sample_nodes)]

\* _save_generated_data: the attributes of S are written to the file
save_generated_data(S, io) ==
    [S EXCEPT !.snapshot_file =
        CASE io = "ok" -> CompleteFile(S.generated_nodes, S.generated_edges,
                                       S.deleted_sample_nodes)
          [] io = "open_fails" -> S.snapshot_file
          [] OTHER -> PartialFile]

\* _load_generated_data whose except branch leaves the attributes alone
load_generated_data_KeepOnError(S) ==
    IF S.snapshot_file.state = "complete"
    THEN State(S.snapshot_file.nodes, S.snapshot_file.edges,
               S.snapshot_file.deleted_sample_nodes, S.snapshot_file)
    ELSE S

\* _load_generated_data: the attributes are replaced by the file's contents,
\* or by empty ones when the file is missing or json.load raises
load_generated_data(S) ==
    IF S.snapshot_file.state = "complete"
    THEN State(S.snapshot_file.nodes, S.snapshot_file.edges,
               S.snapshot_file.deleted_sample_nodes, S.snapshot_file)
    ELSE State(<<>>, <<>>, {}, S.snapshot_file)

\* get_combined_graph_data filtering the seed edges by their source only
get_combined_graph_data_SourceOnly(S) ==
    LET NodeKept(node) == node.id \notin S.deleted_sample_nodes
        EdgeKept(edge) == edge.source \notin S.deleted_sample_nodes
    IN [nodes |-> SelectSeq(SampleNodes, NodeKept) \o S.generated_nodes,
        edges |-> SelectSeq(SampleEdges, EdgeKept) \o S.generated_edges]

\* get_combined_graph_data
get_combined_graph_data(S) ==
    LET NodeKept(node) == node.id \notin S.deleted_sample_nodes
        EdgeKept(edge) == /\ edge.source \notin S.deleted_sample_nodes
                          /\ edge.target \notin S.deleted_sample_nodes
    IN [nodes |-> SelectSeq(SampleNodes, NodeKept) \o S.generated_nodes,
        edges |-> SelectSeq(SampleEdges, EdgeKept) \o S.generated_edges]

(***************************************************************************)
(* The mutating calls, as functions from the state before the call (and    *)
(* the outcome io of the call's save) to the state after it.               *)
(***************************************************************************)
\* the attributes after generate_graph_from_text has merged, before it saves
generate_merged(S, t, tid) ==
    LET extracted_data == ExtractedData(t)
        new_nodes == NewNodes(extracted_data.entities, tid)
        entity_name_to_id == BuildNameIndex(new_nodes, <<>>)
        new_edges == NewEdges(extracted_data.relationships, entity_name_to_id, tid)
    IN State(MergeById(S.generated_nodes, new_nodes),
             MergeById(S.generated_edges, new_edges),
             S.deleted_sample_nodes, S.snapshot_file)

\* generate_graph_from_text(transcript_text, transcript_id): merge and save
generate_graph_from_text(S, t, tid, io) ==
    save_generated_data(generate_merged(S, t, tid), io)

\* what generate_graph_from_text returns
generate_graph_from_text_result(S, t, tid) ==
    LET after == generate_merged(S, t, tid)
    IN [nodes |-> DeduplicateListById(SampleNodes \o after.generated_nodes, {}),
        edges |-> DeduplicateListById(SampleEdges \o after.generated_edges, {}),
        transcript_id |-> tid,
        entities_created |-> Len(ExtractedData(t).entities),
        relationships_created |-> Len(ExtractedData(t).relationships)]

\* the generated nodes left by delete_node
RemoveNode(nodes, node_id) ==
    LET Other(node) == node.id # node_id
    IN SelectSeq(nodes, Other)

\* RemoveEdgesOf that looks at the target of an edge only
RemoveEdgesOf_TargetOnly(edges, node_id) ==
    LET Apart(edge) == edge.target # node_id
    IN SelectSeq(edges, Apart)

\* the generated edges left by delete_node
RemoveEdgesOf(edges, node_id) ==
    LET Apart(edge) == edge.source # node_id /\ edge.target # node_id
    IN SelectSeq(edges, Apart)

\* the seed edges counted by delete_node of a seed node
SampleEdgesOf(node_id) ==
    {i \in 1..Len(SampleEdges) :
        SampleEdges[i].source = node_id \/ SampleEdges[i].target = node_id}

\* delete_node_removed that tombstones node_id without the seed-node check
delete_node_removed_TombstoneAny(S, node_id) ==
    State(RemoveNode(S.generated_nodes, node_id),
          RemoveEdgesOf(S.generated_edges, node_id),
          S.deleted_sample_nodes \cup {node_id},
          S.snapshot_file)

\* the attributes after delete_node has removed the node, before it saves
delete_node_removed(S, node_id) ==
    State(RemoveNode(S.generated_nodes, node_id),
          RemoveEdgesOf(S.generated_edges, node_id),
          IF node_id \in SampleNodeIds
          THEN S.deleted_sample_nodes \cup {node_id}
          ELSE S.deleted_sample_nodes,
          S.snapshot_file)

\* delete_node(node_id): remove, save, reload
delete_node(S, node_id, io) ==
    load_generated_data(save_generated_data(delete_node_removed(S, node_id), io))

\* what delete_node(node_id) returns
delete_node_result(S, node_id) ==
    LET is_sample == node_id \in SampleNodeIds
    IN [nodes_removed |->
            (Len(S.generated_nodes) - Len(RemoveNode(S.generated_nodes, node_id)))
            + (IF is_sample THEN 1 ELSE 0),
        edges_removed |->
            (Len(S.generated_edges)
                - Len(RemoveEdgesOf(S.generated_edges, node_id)))
            + (IF is_sample THEN Cardinality(SampleEdgesOf(node_id)) ELSE 0)]

\* the attributes after clear_all_graph_data has cleared, before it saves
clear_all_cleared(S) ==
    State(<<>>, <<>>, S.deleted_sample_nodes \cup SampleNodeIds, S.snapshot_file)

\* clear_all_graph_data(): clear, save, reload
clear_all_graph_data(S, io) ==
    load_generated_data(save_generated_data(clear_all_cleared(S), io))

\* what clear_all_graph_data returns
clear_all_graph_data_result(S) ==
    [status |-> "success",
     nodes_removed |-> Len(S.generated_nodes) + Len(SampleNodes),
     edges_removed |-> Len(S.generated_edges) + Len(SampleEdges)]

(***************************************************************************)
(* The state machine.                                                      *)
(***************************************************************************)
\* node ids offered to delete_node: two seed nodes that share the seed edge
\* e1, two generated nodes, and an id that names no node
DeleteTargets ==
    {"tim_cook", "apple", "extracted_0", "extracted_1_0", "no_such_node"}

\* the outcomes of the save of one call: the snapshot is written, open()
\* raises (the old file is left as it was), or the write raises after
\* open(.., 'w') has truncated the file
SaveOutcomes == {"ok", "open_fails", "write_fails"}

\* the value of returned while nothing has been called
NoReturn == [call |-> "none"]

\* the service moves to state S
Becomes(S) ==
    /\ generated_nodes' = S.generated_nodes
    /\ generated_edges' = S.generated_edges
    /\ deleted_sample_nodes' = S.deleted_sample_nodes
    /\ snapshot_file' = S.snapshot_file

\* generate_graph_from_text has not been called on a batch of entities
NoResolverCall ==
    /\ extracted_entities = <<>>
    /\ name_to_id = <<>>

\* AutoSyncService.__init__: last_sync is None and no cycle has run
NoSyncService ==
    /\ last_sync = None
    /\ sync_steps = <<>>

\* empty stores, no call of start_background_sync yet (the slots of loops
\* are filled by InitLoop), no second KnowledgeGraphService
NoOtherServices ==
    /\ conversation_store = {}
    /\ summary_store = {}
    /\ is_running = FALSE
    /\ loops = <<>>
    /\ clock = 0
    /\ peer_nodes = <<>>
    /\ peer_edges = <<>>
    /\ peer_deleted = {}

\* __init__ with no snapshot file: _load_generated_data takes the else branch
Init ==
    /\ generated_nodes = <<>>
    /\ generated_edges = <<>>
    /\ deleted_sample_nodes = {}
    /\ snapshot_file = NoFile
    /\ running = TRUE
    /\ transcript_text = <<>>
    /\ returned = NoReturn
    /\ NoResolverCall
    /\ NoSyncService
    /\ NoOtherServices

GenerateGraphFromText(t, tid, io) ==
    /\ running
    /\ Becomes(generate_graph_from_text(Current, t, tid, io))
    /\ UNCHANGED <<running, transcript_text, returned, resolver_vars, sync_vars, other_vars>>

DeleteNode(node_id, io) ==
    /\ running
    /\ Becomes(delete_node(Current, node_id, io))
    /\ UNCHANGED <<running, transcript_text, returned, resolver_vars, sync_vars, other_vars>>

ClearAllGraphData(io) ==
    /\ running
    /\ Becomes(clear_all_graph_data(Current, io))
    /\ UNCHANGED <<running, transcript_text, returned, resolver_vars, sync_vars, other_vars>>

\* The process is killed during the _save_generated_data of some mutating
\* call: before open(.., 'w') the file is still the old one (at = "before"),
\* between open and the end of json.dump it is truncated (at = "within").
\* (Killed after the write, the file is the one the completed call leaves.)
Kill(at) ==
    /\ running
    /\ running' = FALSE
    /\ Becomes(State(<<>>, <<>>, {},
                     IF at = "within" THEN PartialFile ELSE snapshot_file))
    /\ UNCHANGED <<transcript_text, returned, resolver_vars, sync_vars, other_vars>>

\* the process is started again: __init__ loads the snapshot file
Restart ==
    /\ ~running
    /\ running' = TRUE
    /\ Becomes(load_generated_data(Current))
    /\ UNCHANGED <<transcript_text, returned, resolver_vars, sync_vars, other_vars>>

(***************************************************************************)
(* Spec: the three mutating calls, every save succeeding.                  *)
(* SpecIO: the same calls (importing the texts of TextsIO) where a save may *)
(* also raise, and the process may be killed inside a save and started     *)
(* again.                                                                  *)
(***************************************************************************)
Next ==
    \/ \E t \in Texts, tid \in TranscriptIds : GenerateGraphFromText(t, tid, "ok")
    \/ \E node_id \in DeleteTargets : DeleteNode(node_id, "ok")
    \/ ClearAllGraphData("ok")

Spec == Init /\ [][Next]_vars

NextIO ==
    \/ \E t \in TextsIO, tid \in TranscriptIds, io \in SaveOutcomes :
          GenerateGraphFromText(t, tid, io)
    \/ \E node_id \in DeleteTargets, io \in SaveOutcomes : DeleteNode(node_id, io)
    \/ \E io \in SaveOutcomes : ClearAllGraphData(io)
    \/ \E at \in {"before", "within"} : Kill(at)
    \/ Restart

SpecIO == Init /\ [][NextIO]_vars

(***************************************************************************)
(* import_text: _create_entities_locally replaces the generated data by a  *)
(* fixed graph, whatever the text.                                         *)
(***************************************************************************)
\* source_name when import_text is given no title
DefaultTitle == "Direct Text Import"

LocalNode(id, label, type) ==
    [id |-> id, label |-> label, type |-> type, source |-> DefaultTitle]

\* the edge built from the relationship at enumerate index i
LocalEdge(i, source, target, type) ==
    [id |-> "edge_" \o ToString(i), source |-> source, target |-> target,
     type |-> type, origin |-> DefaultTitle]

LocalNodes == <<
    LocalNode("google",
              <<"G","o","o","g","l","e">>,
              "ORGANIZATION"),
    LocalNode("amazon",
              <<"A","m","a","z","o","n">>,
              "ORGANIZATION"),
    LocalNode("microsoft",
              <<"M","i","c","r","o","s","o","f","t">>,
              "ORGANIZATION"),
    LocalNode("new_york",
              <<"N","e","w"," ","Y","o","r","k">>,
              "LOCATION"),
    LocalNode("silicon_valley",
              <<"S","i","l","i","c","o","n"," ","V","a","l","l","e","y">>,
              "LOCATION"),
    LocalNode("california",
              <<"C","a","l","i","f","o","r","n","i","a">>,
              "LOCATION"),
    LocalNode("mba_program",
              <<"M","B","A"," ","P","r","o","g","r","a","m">>,
              "CONCEPT"),
    LocalNode("gmat_score",
              <<"G","M","A","T"," ","S","c","o","r","e">>,
              "CONCEPT"),
    LocalNode("business_school",
              <<"B","u","s","i","n","e","s","s"," ","S","c","h","o","o","l">>,
              "CONCEPT"),
    LocalNode("online_education",
              <<"O","n","l","i","n","e"," ","E","d","u","c","a","t","i","o","n">>,
              "CONCEPT"),
    LocalNode("career_development",
              <<"C","a","r","e","e","r"," ","D","e","v","e","l","o","p","m","e","n","t">>,
              "CONCEPT"),
    LocalNode("professional_growth",
              <<"P","r","o","f","e","s","s","i","o","n","a","l"," ","G","r","o","w","t","h">>,
              "CONCEPT"),
    LocalNode("leadership",
              <<"L","e","a","d","e","r","s","h","i","p">>,
              "CONCEPT"),
    LocalNode("management",
              <<"M","a","n","a","g","e","m","e","n","t">>,
              "CONCEPT"),
    LocalNode("tech_industry",
              <<"T","e","c","h"," ","I","n","d","u","s","t","r","y">>,
              "CONCEPT"),
    LocalNode("ecommerce",
              <<"E","-","c","o","m","m","e","r","c","e">>,
              "CONCEPT"),
    LocalNode("cloud_computing",
              <<"C","l","o","u","d"," ","C","o","m","p","u","t","i","n","g">>,
              "CONCEPT") >>

LocalEdges == <<
    LocalEdge(0, "google", "tech_industry", "BELONGS_TO"),
    LocalEdge(1, "amazon", "tech_industry", "BELONGS_TO"),
    LocalEdge(2, "microsoft", "tech_industry", "BELONGS_TO"),
    LocalEdge(3, "amazon", "ecommerce", "DOMINATES"),
    LocalEdge(4, "google", "cloud_computing", "PROVIDES"),
    LocalEdge(5, "microsoft", "cloud_computing", "PROVIDES"),
    LocalEdge(6, "google", "california", "HEADQUARTERED_IN"),
    LocalEdge(7, "amazon", "california", "HEADQUARTERED_IN"),
    LocalEdge(8, "microsoft", "california", "HEADQUARTERED_IN"),
    LocalEdge(9, "silicon_valley", "california", "LOCATED_IN"),
    LocalEdge(10, "tech_industry", "silicon_valley", "CENTERS_IN"),
    LocalEdge(11, "mba_program", "business_school", "PART_OF"),
    LocalEdge(12, "gmat_score", "mba_program", "REQUIRED_FOR"),
    LocalEdge(13, "business_school", "education", "CATEGORY"),
    LocalEdge(14, "online_education", "mba_program", "DELIVERS"),
    LocalEdge(15, "mba_program", "career_development", "HELPS_WITH"),
    LocalEdge(16, "career_development", "professional_growth", "LEADS_TO"),
    LocalEdge(17, "career_development", "leadership", "DEVELOPS"),
    LocalEdge(18, "leadership", "management", "INVOLVES"),
    LocalEdge(19, "tech_industry", "career_development", "OFFERS"),
    LocalEdge(20, "ecommerce", "career_development", "OFFERS"),
    LocalEdge(21, "cloud_computing", "career_development", "OFFERS"),
    LocalEdge(22, "google", "career_development", "PROVIDES"),
    LocalEdge(23, "amazon", "career_development", "PROVIDES"),
    LocalEdge(24, "microsoft", "career_development", "PROVIDES") >>

\* _create_entities_locally: the lists are replaced and saved
create_entities_locally(S, io) ==
    save_generated_data(
        State(LocalNodes, LocalEdges, S.deleted_sample_nodes, S.snapshot_file),
        io)

ImportText(io) ==
    /\ running
    /\ Becomes(create_entities_locally(Current, io))
    /\ UNCHANGED <<running, transcript_text, returned, resolver_vars, sync_vars, other_vars>>

\* SpecImport: the calls of Spec and import_text, every save succeeding
NextImport ==
    \/ Next
    \/ ImportText("ok")

SpecImport == Init /\ [][NextImport]_vars

(***************************************************************************)
(* SpecExtract: one call on one transcript text.  The text is drawn from   *)
(* InputTexts; the call is one of extract_entities, extract_relationships  *)
(* and extract_facts of the RelationshipManager, or                        *)
(* generate_graph_from_text of a fresh service, which runs the extraction, *)
(* the post-processing, the resolver, the linker and the merge.            *)
(***************************************************************************)
\* the texts of the table that are offered: rows 1..MaxSentence
Sentence(k) ==
    CASE k = 1 -> Chars("Tim Cook is the CEO of Apple Inc.")
      [] k = 2 -> Chars("python is great")
      [] k = 3 -> Chars("the api is slow")
      [] k = 4 -> Chars("i like beer and ham")
      [] k = 5 -> Chars("we study at harvard")
      [] k = 6 -> Chars("it was a dull day")
      [] k = 7 -> Chars("Elon Musk founded SpaceX.")
      [] k = 8 -> Chars("Meta owns Instagram")
      [] k = 9 -> Chars("Google is headquartered in California.")
      [] k = 10 -> Chars("python api")
      [] k = 11 -> Chars("Satya Nadella leads Microsoft")
      [] k = 12 -> Chars("")
      [] k = 13 -> Chars("Dr. Jane Smith works at Acme Corp")
      [] OTHER -> Chars("   ")

\* the texts offered to the extractor: one of the rows 1..MaxSentence of
\* the table, or two different rows of 1..MaxPair joined by a blank
InputTexts ==
    {Sentence(k) : k \in 1..MaxSentence}
        \cup {Sentence(pair[1]) \o <<" ">> \o Sentence(pair[2]) :
                 pair \in {q \in (1..MaxPair) \X (1..MaxPair) : q[1] # q[2]}}

\* the j-th sentence of a fact text: the sentences whose number is a
\* multiple of period have no factual indicator, the others have 'is'
FactSentence(j, period) ==
    <<LowerLetters[((j - 1) % 26) + 1]>>
        \o (IF j % period = 0 THEN Chars(" not in here. ")
            ELSE Chars(" is in here. "))

\* a text of n sentences
RECURSIVE FactText(_, _)
FactText(n, period) ==
    IF n = 0 THEN <<>> ELSE FactText(n - 1, period) \o FactSentence(n, period)

FactPeriods == {3, 5, 7}

\* the texts offered to extract_facts
FactTexts ==
    {FactText(n, period) : n \in 0..MaxFactSentences, period \in FactPeriods}

\* the state after generate_graph_from_text has merged what was extracted
\* from the text
generate_merged_extracted(S, extracted_data, tid) ==
    LET new_nodes == NewNodes(extracted_data.entities, tid)
        entity_name_to_id == BuildNameIndex(new_nodes, <<>>)
        new_edges == NewEdges(extracted_data.relationships, entity_name_to_id, tid)
    IN State(MergeById(S.generated_nodes, new_nodes),
             MergeById(S.generated_edges, new_edges),
             S.deleted_sample_nodes, S.snapshot_file)

\* what generate_graph_from_text returns
generate_extracted_result(after, extracted_data, tid) ==
    [nodes |-> DeduplicateListById(SampleNodes \o after.generated_nodes, {}),
     edges |-> DeduplicateListById(SampleEdges \o after.generated_edges, {}),
     transcript_id |-> tid,
     entities_created |-> Len(extracted_data.entities),
     relationships_created |-> Len(extracted_data.relationships)]

InitExtract ==
    /\ generated_nodes = <<>>
    /\ generated_edges = <<>>
    /\ deleted_sample_nodes = {}
    /\ snapshot_file = NoFile
    /\ running = TRUE
    /\ transcript_text \in InputTexts
    /\ returned = NoReturn
    /\ NoResolverCall
    /\ NoSyncService
    /\ NoOtherServices

\* a call of the RelationshipManager returns value
Returns(call, value) ==
    /\ returned = NoReturn
    /\ returned' = [call |-> call, value |-> value]
    /\ UNCHANGED <<generated_nodes, generated_edges, deleted_sample_nodes,
                   snapshot_file, running, transcript_text, resolver_vars,
                   sync_vars, other_vars>>

ExtractEntities == Returns("extract_entities", extract_entities(transcript_text))

ExtractRelationships ==
    Returns("extract_relationships", extract_relationships(transcript_text))

ExtractFacts == Returns("extract_facts", extract_facts(transcript_text))

GenerateGraphFromTranscript(tid) ==
    /\ returned = NoReturn
    /\ \E extracted_data \in {extract_entities_and_relationships(transcript_text)} :
          \E after \in {generate_merged_extracted(Current, extracted_data, tid)} :
             /\ Becomes(save_generated_data(after, "ok"))
             /\ returned' = [call |-> "generate_graph_from_text",
                             value |-> generate_extracted_result(after,
                                                                 extracted_data,
                                                                 tid)]
    /\ UNCHANGED <<running, transcript_text, resolver_vars, sync_vars, other_vars>>

NextExtract ==
    \/ ExtractEntities
    \/ ExtractRelationships
    \/ ExtractFacts
    \/ \E tid \in TranscriptIds : GenerateGraphFromTranscript(tid)

SpecExtract == InitExtract /\ [][NextExtract]_vars

\* SpecFacts: extract_facts on one of the texts of FactTexts
InitFacts ==
    /\ generated_nodes = <<>>
    /\ generated_edges = <<>>
    /\ deleted_sample_nodes = {}
    /\ snapshot_file = NoFile
    /\ running = TRUE
    /\ transcript_text \in FactTexts
    /\ returned = NoReturn
    /\ NoResolverCall
    /\ NoSyncService
    /\ NoOtherServices

NextFacts == ExtractFacts

SpecFacts == InitFacts /\ [][NextFacts]_vars

(***************************************************************************)
(* SpecIndex: one call of generate_graph_from_text of a fresh service for  *)
(* which the extractor has returned a batch of at most MaxBatch entities   *)
(* and no relationship.  The names of the batch share words, differ in     *)
(* case only, or are empty or blank.                                       *)
(***************************************************************************)
EntityChoices ==
    {Entity(Chars("Meta owns"), "PERSON"),
     Entity(Chars("Meta"), "ORGANIZATION"),
     Entity(Chars("Owns Meta"), "PERSON"),
     Entity(Chars("META"), "TECHNOLOGY"),
     Entity(Chars("  "), "UNKNOWN"),
     Entity(<<>>, "UNKNOWN")}

EntityBatches ==
    UNION {[1..n -> EntityChoices] : n \in 0..MaxBatch}

InitIndex ==
    /\ generated_nodes = <<>>
    /\ generated_edges = <<>>
    /\ deleted_sample_nodes = {}
    /\ snapshot_file = NoFile
    /\ running = TRUE
    /\ transcript_text = <<>>
    /\ returned = NoReturn
    /\ extracted_entities \in EntityBatches
    /\ name_to_id = <<>>
    /\ NoSyncService
    /\ NoOtherServices

\* generate_graph_from_text when the extractor returns extracted_entities
GenerateGraphFromEntities(tid) ==
    /\ returned = NoReturn
    /\ LET extracted_data ==
               [entities |-> extracted_entities, relationships |-> <<>>]
           after == generate_merged_extracted(Current, extracted_data, tid)
       IN /\ Becomes(save_generated_data(after, "ok"))
          /\ name_to_id' = BuildNameIndex(NewNodes(extracted_entities, tid), <<>>)
          /\ returned' = [call |-> "generate_graph_from_text",
                          value |-> generate_extracted_result(after, extracted_data,
                                                              tid)]
    /\ UNCHANGED <<running, transcript_text, extracted_entities, sync_vars,
                   other_vars>>

NextIndex == \E tid \in TranscriptIds : GenerateGraphFromEntities(tid)

SpecIndex == InitIndex /\ [][NextIndex]_vars

(***************************************************************************)
(* SpecSync: AutoSyncService.  Its KnowledgeGraphService has loaded the    *)
(* snapshot of an earlier import, or none.  A sub-task either is hit by an *)
(* exception in its try block (fault) or finds some older duplicates, for  *)
(* each of which collection.delete succeeds or raises.                     *)
(***************************************************************************)
\* an exception leaves the call / the call returns value
Raises == [raised |-> TRUE]

ReturnsValue(value) == [raised |-> FALSE, value |-> value]

\* the inner try for the older duplicates: collection.delete raises, or it
\* succeeds and the call of kg_service.remove_conversation_from_graph (or
\* remove_summary_from_graph), which KnowledgeGraphService does not define,
\* raises AttributeError; the except of the inner try skips
\* duplicates_removed += 1 in both cases
RECURSIVE RemoveOlderDuplicates(_, _)
RemoveOlderDuplicates(deletes, duplicates_removed) ==
    IF deletes = <<>> THEN duplicates_removed
    ELSE RemoveOlderDuplicates(Tail(deletes), duplicates_removed)

\* the items collection.delete has removed
Deleted(task) ==
    IF task.fault THEN 0
    ELSE Cardinality({i \in 1..Len(task.deletes) : task.deletes[i] = "deleted"})

\* a sub-task whose except clause is missing: the exception leaves it
auto_deduplicate_NoCatch(task) ==
    IF task.fault THEN Raises
    ELSE ReturnsValue([duplicates_removed |->
                          RemoveOlderDuplicates(task.deletes, 0)])

\* auto_deduplicate_conversations
auto_deduplicate_conversations(task) ==
    IF task.fault THEN ReturnsValue([duplicates_removed |-> 0])
    ELSE ReturnsValue([duplicates_removed |->
                          RemoveOlderDuplicates(task.deletes, 0)])

\* auto_deduplicate_summaries
auto_deduplicate_summaries(task) ==
    IF task.fault THEN ReturnsValue([duplicates_removed |-> 0])
    ELSE ReturnsValue([duplicates_removed |->
                          RemoveOlderDuplicates(task.deletes, 0)])

\* _deduplicate_generated_data
deduplicate_generated_data(S) ==
    State(DeduplicateListById(S.generated_nodes, {}),
          DeduplicateListById(S.generated_edges, {}),
          S.deleted_sample_nodes, S.snapshot_file)

\* the attributes of kg_service after auto_deduplicate_graph
auto_deduplicate_graph_state(S, fault) ==
    IF fault THEN S ELSE deduplicate_generated_data(S)

\* auto_deduplicate_graph
auto_deduplicate_graph(S, fault) ==
    IF fault
    THEN ReturnsValue([nodes_deduplicated |-> 0, edges_deduplicated |-> 0])
    ELSE LET after == deduplicate_generated_data(S)
         IN ReturnsValue(
                [nodes_deduplicated |->
                     Len(S.generated_nodes) - Len(after.generated_nodes),
                 edges_deduplicated |->
                     Len(S.generated_edges) - Len(after.generated_edges)])

\* one entry of sync_steps
Step(task, fault, deleted) == [task |-> task, fault |-> fault, deleted |-> deleted]

\* the except clause of run_sync_cycle
SyncError ==
    [status |-> "error", results |-> <<>>, total_items_cleaned |-> 0]

\* run_sync_cycle: the attributes of kg_service, last_sync, the sub-tasks
\* run and the value returned
run_sync_cycle(S, last, conversations, summaries, graph_fault, now) ==
    LET conv_results == auto_deduplicate_conversations(conversations)
        summary_results == auto_deduplicate_summaries(summaries)
        graph_results == auto_deduplicate_graph(S, graph_fault)
        step1 == <<Step("conversations", conversations.fault,
                        Deleted(conversations))>>
        step2 == Append(step1, Step("summaries", summaries.fault,
                                    Deleted(summaries)))
        step3 == Append(step2, Step("graph", graph_fault, 0))
        Failed(steps, state) ==
            [state |-> state, last_sync |-> last, steps |-> steps,
             value |-> SyncError]
    IN IF conv_results.raised THEN Failed(step1, S)
       ELSE IF summary_results.raised THEN Failed(step2, S)
       ELSE IF graph_results.raised
       THEN Failed(step3, auto_deduplicate_graph_state(S, graph_fault))
       ELSE [state |-> auto_deduplicate_graph_state(S, graph_fault),
             last_sync |-> now,
             steps |-> step3,
             value |->
                 [status |-> "success",
                  results |-> [conversations |-> conv_results.value,
                               summaries |-> summary_results.value,
                               graph |-> graph_results.value,
                               sync_time |-> now],
                  total_items_cleaned |->
                      conv_results.value.duplicates_removed
                      + summary_results.value.duplicates_removed
                      + graph_results.value.nodes_deduplicated
                      + graph_results.value.edges_deduplicated]]

\* what a sub-task meets: an exception, or up to MaxDuplicates older
\* duplicates
DeleteOutcomes == {"deleted", "delete_fails"}

TaskInputs ==
    {[fault |-> TRUE, deletes |-> <<>>]}
    \cup {[fault |-> FALSE, deletes |-> d] :
             d \in UNION {[1..n -> DeleteOutcomes] : n \in 0..MaxDuplicates}}

\* the states kg_service is constructed in: no snapshot, or the snapshot of
\* one import
SyncStarts ==
    {State(<<>>, <<>>, {}, NoFile)}
    \cup {generate_graph_from_text(State(<<>>, <<>>, {}, NoFile), t, None, "ok") :
             t \in Texts}

InitSync ==
    /\ \E S \in SyncStarts :
          /\ generated_nodes = S.generated_nodes
          /\ generated_edges = S.generated_edges
          /\ deleted_sample_nodes = S.deleted_sample_nodes
          /\ snapshot_file = S.snapshot_file
    /\ running = TRUE
    /\ transcript_text = <<>>
    /\ returned = NoReturn
    /\ NoResolverCall
    /\ NoSyncService
    /\ NoOtherServices

RunSyncCycle(conversations, summaries, graph_fault, now) ==
    /\ running
    /\ last_sync # None => now > last_sync
    /\ LET cycle == run_sync_cycle(Current, last_sync, conversations, summaries,
                                   graph_fault, now)
       IN /\ Becomes(cycle.state)
          /\ last_sync' = cycle.last_sync
          /\ sync_steps' = cycle.steps
          /\ returned' = [call |-> "run_sync_cycle", value |-> cycle.value]
    /\ UNCHANGED <<running, transcript_text, resolver_vars, other_vars>>

NextSync ==
    \E conversations \in TaskInputs, summaries \in TaskInputs,
       graph_fault \in BOOLEAN, now \in 1..MaxNow :
        RunSyncCycle(conversations, summaries, graph_fault, now)

SpecSync == InitSync /\ [][NextSync]_vars

(***************************************************************************)
(* SpecDedup: the two store sub-tasks of AutoSyncService on the records of *)
(* one user.  A record is [id, text, timestamp]: conversation_id,          *)
(* user_message and timestamp of a conversation; id, content and created   *)
(* of a summary.  A store holds up to MaxTail records whose texts differ   *)
(* in case and blanks only or not at all, and newer filler records with    *)
(* texts of their own.  collection.delete does not fail here.              *)
(***************************************************************************)
\* user_msg = conv.get('user_message', '').strip().lower(), and likewise
\* content
Normalized(record) == Lower(Strip(record.text))

\* the store without its k oldest records
RECURSIVE DropOldest(_, _)
DropOldest(store, k) ==
    IF k = 0 \/ store = {} THEN store
    ELSE LET times == {r.timestamp : r \in store}
             oldest == CHOOSE t \in times : \A x \in times : t <= x
         IN DropOldest({r \in store : r.timestamp # oldest}, k - 1)

\* get_recent_conversations(user_id, limit): the limit newest records
get_recent_conversations(store, limit) ==
    DropOldest(store, Max(0, Cardinality(store) - limit))

\* the stores that lack k of the records of some
RECURSIVE Without(_, _, _)
Without(store, some, k) ==
    IF k = 0 THEN {store}
    ELSE UNION {Without(store \ {r}, some \ {r}, k - 1) : r \in some}

\* search_summaries("", user_id, limit): the limit records nearest to the
\* empty query.  Which records the query leaves out depends on their
\* embeddings; here they are any of the MaxTail + 1 oldest ones (that is
\* any of the older records or the oldest filler record, the filler
\* records being alike).
search_summaries(store, limit) ==
    Without(store, store \ DropOldest(store, MaxTail + 1),
            Max(0, Cardinality(store) - limit))

\* conv_list[1:] of every group: the records of the list that share their
\* normalized text with a newer record of the list
OlderDuplicates(list) ==
    LET keyed == {<<r.timestamp, Normalized(r), r>> : r \in list}
    IN {k[3] : k \in {k \in keyed :
                        \E x \in keyed : x[1] > k[1] /\ x[2] = k[2]}}

\* collection.delete(ids=[old['conversation_id']]) for every older duplicate
DeleteFrom(store, older) ==
    LET ids == {x.id : x \in older}
    IN {r \in store : r.id \notin ids}

\* what the inner try of every older duplicate meets in this specification
AllDeleted(older) ==
    [fault |-> FALSE, deletes |-> [i \in 1..Cardinality(older) |-> "deleted"]]

\* the conversation store after auto_deduplicate_conversations
deduplicated_conversations(store) ==
    DeleteFrom(store, OlderDuplicates(get_recent_conversations(store, DedupLimit)))

\* the summary store after auto_deduplicate_summaries found summaries
deduplicated_summaries(store, summaries) ==
    DeleteFrom(store, OlderDuplicates(summaries))

\* the texts of the older records of a store
TailTexts == {Chars("hi"), Chars("Hi "), Chars(" HI"), Chars("yo")}

\* the older records: different texts, the first the oldest
Tails ==
    {tail \in UNION {[1..n -> TailTexts] : n \in 0..MaxTail} :
        \A i, j \in 1..Len(tail) : i # j => tail[i] # tail[j]}

\* how many filler records there are
FillerCounts == {0, DedupLimit - 2, DedupLimit - 1, DedupLimit}

\* the conversation id is a hash of the conversation and its time, the
\* summary id a hash of the content
ConversationId(text, timestamp) == timestamp

SummaryId(text, timestamp) == text

\* the id of a record of the store of kind
RecordId(kind, text, timestamp) ==
    IF kind = "summaries" THEN SummaryId(text, timestamp)
    ELSE ConversationId(text, timestamp)

\* a store of the records of tail and of fillers newer filler records
Store(fillers, tail, kind) ==
    {[id |-> RecordId(kind, tail[i], i), text |-> tail[i], timestamp |-> i] :
        i \in 1..Len(tail)}
    \cup {[id |-> RecordId(kind, Chars("m" \o ToString(k)), Len(tail) + k),
            text |-> Chars("m" \o ToString(k)),
            timestamp |-> Len(tail) + k] : k \in 1..fillers}

InitDedup ==
    /\ generated_nodes = <<>>
    /\ generated_edges = <<>>
    /\ deleted_sample_nodes = {}
    /\ snapshot_file = NoFile
    /\ running = TRUE
    /\ transcript_text = <<>>
    /\ returned = NoReturn
    /\ NoResolverCall
    /\ NoSyncService
    /\ \E fillers \in FillerCounts, tail \in Tails :
          /\ conversation_store = Store(fillers, tail, "conversations")
          /\ summary_store =
                Store(Min(fillers, DedupLimit + 1 - Len(tail)), tail, "summaries")
    /\ is_running = FALSE
    /\ loops = <<>>
    /\ clock = 0
    /\ peer_nodes = <<>>
    /\ peer_edges = <<>>
    /\ peer_deleted = {}

AutoDeduplicateConversations ==
    LET conversations == get_recent_conversations(conversation_store, DedupLimit)
        older == OlderDuplicates(conversations)
    IN /\ conversation_store' = DeleteFrom(conversation_store, older)
       /\ sync_steps' = <<Step("conversations", FALSE, Cardinality(older))>>
       /\ returned' =
             [call |-> "auto_deduplicate_conversations",
              value |-> auto_deduplicate_conversations(AllDeleted(older)).value]
       /\ UNCHANGED <<generated_nodes, generated_edges, deleted_sample_nodes,
                      snapshot_file, running, transcript_text, resolver_vars,
                      last_sync, summary_store, loop_vars, peer_vars>>

AutoDeduplicateSummaries ==
    \E summaries \in search_summaries(summary_store, DedupLimit) :
        LET older == OlderDuplicates(summaries)
        IN /\ summary_store' = DeleteFrom(summary_store, older)
           /\ sync_steps' = <<Step("summaries", FALSE, Cardinality(older))>>
           /\ returned' =
                 [call |-> "auto_deduplicate_summaries",
                  value |-> auto_deduplicate_summaries(AllDeleted(older)).value]
           /\ UNCHANGED <<generated_nodes, generated_edges, deleted_sample_nodes,
                          snapshot_file, running, transcript_text,
                          resolver_vars, last_sync, conversation_store,
                          loop_vars, peer_vars>>

NextDedup ==
    \/ AutoDeduplicateConversations
    \/ AutoDeduplicateSummaries

SpecDedup == InitDedup /\ [][NextDedup]_vars

\* ---------------------------------------------------------------------
\* The background loop of AutoSyncService.  Time is counted in minutes;
\* asyncio.sleep(60) is the only point where a loop gives up the event
\* loop, so everything between two sleeps is one step.

\* should_sync with mutation: a cycle on every check
should_sync_Always(last, now) == TRUE

\* should_sync
should_sync(last, now) ==
    last = None \/ now - last >= SyncIntervalMinutes

\* a call of start_background_sync: where it stands (sleeping, done, or
\* refused when it returned at once), when its sleep is over, whether
\* stop_background_sync was called while it slept, and how many sync
\* cycles it has started
Loop(pc, wake_at, stopped, cycles) ==
    [pc |-> pc, wake_at |-> wake_at, stopped |-> stopped, cycles |-> cycles]

\* what a sub-task of a cycle of the loop meets: an exception, or one older
\* duplicate
LoopInputs ==
    {t \in TaskInputs : t.fault \/ t.deletes = <<"deleted">>}

\* one pass through the body of while self.is_running, by the call in
\* slot i of base: a sync cycle if should_sync says so, then the sleep
LoopIteration(base, i) ==
    IF should_sync(last_sync, clock)
    THEN \E conversations \in LoopInputs, summaries \in LoopInputs,
            graph_fault \in BOOLEAN, took \in 0..MaxCycleMinutes :
            /\ clock + took <= MaxClock
            /\ LET cycle == run_sync_cycle(Current, last_sync, conversations,
                                           summaries, graph_fault, clock + took)
               IN /\ Becomes(cycle.state)
                  /\ last_sync' = cycle.last_sync
                  /\ sync_steps' = cycle.steps
            /\ clock' = clock + took
            /\ loops' = [base EXCEPT ![i] =
                            Loop("sleeping", clock + took + 1,
                                 base[i].stopped, base[i].cycles + 1)]
    ELSE /\ loops' = [base EXCEPT ![i] =
                         Loop("sleeping", clock + 1, base[i].stopped,
                              base[i].cycles)]
         /\ UNCHANGED <<generated_nodes, generated_edges,
                        deleted_sample_nodes, snapshot_file, sync_vars, clock>>

InitLoop ==
    /\ \E S \in SyncStarts :
          /\ generated_nodes = S.generated_nodes
          /\ generated_edges = S.generated_edges
          /\ deleted_sample_nodes = S.deleted_sample_nodes
          /\ snapshot_file = S.snapshot_file
    /\ running = TRUE
    /\ transcript_text = <<>>
    /\ returned = NoReturn
    /\ NoResolverCall
    /\ NoSyncService
    /\ NoOtherServices

\* start_background_sync up to its first sleep
StartBackgroundSync ==
    /\ Len(loops) < MaxLoops
    /\ IF is_running
       THEN /\ loops' = Append(loops, Loop("refused", 0, FALSE, 0))
            /\ UNCHANGED <<generated_nodes, generated_edges,
                           deleted_sample_nodes, snapshot_file, sync_vars,
                           is_running, clock>>
       ELSE /\ is_running' = TRUE
            /\ LoopIteration(Append(loops, Loop("sleeping", 0, FALSE, 0)),
                             Len(loops) + 1)
    /\ UNCHANGED <<running, transcript_text, returned, resolver_vars,
                   store_vars, peer_vars>>

\* the sleep of the call in slot i is over: the check of while
\* self.is_running, then either the next pass or the finally clause
WakeUp(i) ==
    /\ loops[i].pc = "sleeping"
    /\ clock >= loops[i].wake_at
    /\ IF is_running
       THEN /\ LoopIteration(loops, i)
            /\ UNCHANGED is_running
       ELSE /\ is_running' = FALSE
            /\ loops' = [loops EXCEPT ![i].pc = "done"]
            /\ UNCHANGED <<generated_nodes, generated_edges,
                           deleted_sample_nodes, snapshot_file, sync_vars,
                           clock>>
    /\ UNCHANGED <<running, transcript_text, returned, resolver_vars,
                   store_vars, peer_vars>>

\* stop_background_sync
StopBackgroundSync ==
    /\ is_running' = FALSE
    /\ loops' = [i \in DOMAIN loops |->
                    IF loops[i].pc = "sleeping"
                    THEN [loops[i] EXCEPT !.stopped = TRUE]
                    ELSE loops[i]]
    /\ UNCHANGED <<generated_nodes, generated_edges, deleted_sample_nodes,
                   snapshot_file, running, transcript_text, returned,
                   resolver_vars, sync_vars, store_vars, clock, peer_vars>>

\* a minute passes
Tick ==
    /\ clock < MaxClock
    /\ clock' = clock + 1
    /\ UNCHANGED <<generated_nodes, generated_edges, deleted_sample_nodes,
                   snapshot_file, running, transcript_text, returned,
                   resolver_vars, sync_vars, store_vars, is_running, loops,
                   peer_vars>>

NextLoop ==
    \/ StartBackgroundSync
    \/ \E i \in DOMAIN loops : WakeUp(i)
    \/ StopBackgroundSync
    \/ Tick

SpecLoop == InitLoop /\ [][NextLoop]_vars

\* ---------------------------------------------------------------------
\* Two KnowledgeGraphService instances in one process: kg_service of the
\* router (generated_nodes, generated_edges, deleted_sample_nodes) and
\* graph_service.kg_service (peer_nodes, peer_edges, peer_deleted).  Both
\* use generated_graph_data.json.

\* the state graph_service.kg_service is in
Peer == State(peer_nodes, peer_edges, peer_deleted, snapshot_file)

\* both instances are constructed at import time, from the same file
InitShared ==
    /\ \E S \in SyncStarts :
          LET loaded == load_generated_data(State(<<>>, <<>>, {}, S.snapshot_file))
          IN /\ generated_nodes = loaded.generated_nodes
             /\ generated_edges = loaded.generated_edges
             /\ deleted_sample_nodes = loaded.deleted_sample_nodes
             /\ snapshot_file = S.snapshot_file
             /\ peer_nodes = loaded.generated_nodes
             /\ peer_edges = loaded.generated_edges
             /\ peer_deleted = loaded.deleted_sample_nodes
    /\ running = TRUE
    /\ transcript_text = <<>>
    /\ returned = NoReturn
    /\ NoResolverCall
    /\ NoSyncService
    /\ conversation_store = {}
    /\ summary_store = {}
    /\ is_running = FALSE
    /\ loops = <<>>
    /\ clock = 0

\* graph_service.generate_graph_from_text(transcript_text, transcript_id)
PeerGenerateGraphFromText(t, tid) ==
    /\ running
    /\ LET after == generate_graph_from_text(Peer, t, tid, "ok")
       IN /\ peer_nodes' = after.generated_nodes
          /\ peer_edges' = after.generated_edges
          /\ peer_deleted' = after.deleted_sample_nodes
          /\ snapshot_file' = after.snapshot_file
    /\ UNCHANGED <<generated_nodes, generated_edges, deleted_sample_nodes,
                   running, transcript_text, returned, resolver_vars,
                   sync_vars, store_vars, loop_vars>>

\* the router's calls pass transcript_id None, those of graph_service the
\* id of a transcript
NextShared ==
    \/ \E t \in Texts : GenerateGraphFromText(t, None, "ok")
    \/ ClearAllGraphData("ok")
    \/ \E t \in TextsIO, tid \in 0..MaxTid : PeerGenerateGraphFromText(t, tid)

SpecShared == InitShared /\ [][NextShared]_vars

(***************************************************************************)
(* Properties.                                                             *)
(***************************************************************************)
\* the combined view of the current state
Combined == get_combined_graph_data(Current)

\* the edges of a list that touch node_id
Touching(edges, node_id) ==
    {i \in 1..Len(edges) : edges[i].source = node_id \/ edges[i].target = node_id}

\* no id occurs twice in the list
UniqueIds(items) == Cardinality(Ids(items)) = Len(items)

\* every entity of text t is the label of a generated node of S
HoldsEntities(S, t) ==
    \A i \in 1..Len(ExtractedData(t).entities) :
        \E j \in 1..Len(S.generated_nodes) :
            S.generated_nodes[j].label = Strip(ExtractedData(t).entities[i].name)

\* texts t1 and t2 have no entity name in common
Unrelated(t1, t2) ==
    \A i \in 1..Len(ExtractedData(t1).entities),
       j \in 1..Len(ExtractedData(t2).entities) :
        Lower(ExtractedData(t1).entities[i].name)
            # Lower(ExtractedData(t2).entities[j].name)

\* C1: after any sequence of generate_graph_from_text, delete_node and
\* clear_all_graph_data calls from an empty snapshot, every edge of the
\* combined view has its source and its target among the ids of the nodes
\* of the same view.
C1_NoDanglingEdge ==
    \A i \in 1..Len(Combined.edges) :
        /\ Combined.edges[i].source \in Ids(Combined.nodes)
        /\ Combined.edges[i].target \in Ids(Combined.nodes)

\* a seed node is tombstoned, the generated node extracted_0 has been deleted
\* while extracted_1 of the same import is still there, and a generated edge
\* is visible
C1_Witness ==
    /\ "apple" \in deleted_sample_nodes
    /\ "extracted_1" \in Ids(generated_nodes)
    /\ "extracted_0" \notin Ids(generated_nodes)
    /\ generated_edges # <<>>

\* C2: once a seed node id is in deleted_sample_nodes, no later combined
\* view holds a node with that id, whatever calls happen in between.
C2_TombstoneStays ==
    [][\A id \in deleted_sample_nodes :
          running' => id \notin Ids(get_combined_graph_data(Current).nodes)']_vars

\* C3: importing the same text with the same transcript_id a second time
\* leaves generated_nodes and generated_edges as the first import left them.
C3_SecondImportAddsNothing ==
    \A t \in Texts, tid \in TranscriptIds :
        LET first == generate_graph_from_text(Current, t, tid, "ok")
            second == generate_graph_from_text(first, t, tid, "ok")
        IN /\ second.generated_nodes = first.generated_nodes
           /\ second.generated_edges = first.generated_edges

\* the store holds the nodes and the edge of an import of text 1 under
\* transcript_id 1, so the import of that text is a second one
C3_Witness ==
    /\ generated_nodes # <<>>
    /\ \A i \in 1..Len(NewNodes(ExtractedData(1).entities, 1)) :
          \E j \in 1..Len(generated_nodes) :
              generated_nodes[j] = NewNodes(ExtractedData(1).entities, 1)[i]
    /\ "rel_1_0" \in Ids(generated_edges)

\* C4: when an import of text t1 is followed by an import of an unrelated
\* text t2, for any transcript_id arguments, generated_nodes holds the
\* entities of both texts afterwards.
C4_BothImportsKept ==
    [][\A t1 \in Texts, t2 \in Texts, tid \in TranscriptIds :
          ( /\ Unrelated(t1, t2)
            /\ ExtractedData(t1).entities # <<>>
            /\ HoldsEntities(Current, t1)
            /\ GenerateGraphFromText(t2, tid, "ok") )
          => (HoldsEntities(Current, t1) /\ HoldsEntities(Current, t2))']_vars

\* C5: in any reachable state, clear_all_graph_data followed by
\* get_combined_graph_data gives no node and no edge.
C5_ClearThenEmpty ==
    [][\A io \in SaveOutcomes :
          ClearAllGraphData(io)
          => /\ get_combined_graph_data(Current).nodes' = <<>>
             /\ get_combined_graph_data(Current).edges' = <<>>]_vars

\* C6: delete_node(id) removes the node and its edges from the combined
\* view, and nodes_removed and edges_removed are the numbers of nodes and
\* edges that left the combined view.
C6_DeleteCountsWhatItRemoves ==
    [][\A node_id \in DeleteTargets :
          DeleteNode(node_id, "ok")
          => LET result == delete_node_result(Current, node_id)
                 before == get_combined_graph_data(Current)
                 after == get_combined_graph_data(Current)'
             IN /\ node_id \notin Ids(after.nodes)
                /\ Touching(after.edges, node_id) = {}
                /\ result.nodes_removed = Len(before.nodes) - Len(after.nodes)
                /\ result.edges_removed = Len(before.edges) - Len(after.edges)]_vars

\* C7: the combined view is the untombstoned seed nodes followed by
\* generated_nodes, and the seed edges with both endpoints untombstoned
\* followed by generated_edges, each deduplicated by id keeping the first
\* occurrence; no id occurs twice in either list.
C7_CombinedIsDeduplicatedConcatenation ==
    LET NodeKept(node) == node.id \notin deleted_sample_nodes
        EdgeKept(edge) == /\ edge.source \notin deleted_sample_nodes
                          /\ edge.target \notin deleted_sample_nodes
    IN /\ Combined.nodes =
            DeduplicateListById(SelectSeq(SampleNodes, NodeKept) \o generated_nodes, {})
       /\ Combined.edges =
            DeduplicateListById(SelectSeq(SampleEdges, EdgeKept) \o generated_edges, {})
       /\ UniqueIds(Combined.nodes)
       /\ UniqueIds(Combined.edges)

\* apple is tombstoned and tim_cook is not (the seed edge e1 has one
\* tombstoned endpoint) and generated nodes and edges are present
C7_Witness ==
    /\ "apple" \in deleted_sample_nodes
    /\ "tim_cook" \notin deleted_sample_nodes
    /\ generated_nodes # <<>>
    /\ generated_edges # <<>>

\* C8: every edge that an operation places into generated_edges has its
\* source and its target among the ids of generated_nodes at that moment.
C8_InsertedEdgesResolve ==
    [][\A i \in 1..Len(generated_edges') :
          (\A j \in 1..Len(generated_edges) :
              generated_edges[j] # generated_edges'[i])
          => /\ generated_edges'[i].source \in Ids(generated_nodes')
             /\ generated_edges'[i].target \in Ids(generated_nodes')]_vars

\* C9: when the process has been killed during _save_generated_data, the
\* snapshot file is a complete snapshot (or is still absent), never a
\* truncated one.
C9_KilledSaveLeavesCompleteSnapshot ==
    ~running => snapshot_file.state \in {"missing", "complete"}

\* C10: when the save of a mutating call raises, the attributes after the
\* call are the result of the mutation.
C10_FailedSaveKeepsMutation ==
    [][\A io \in {"open_fails", "write_fails"} :
          /\ \A node_id \in DeleteTargets :
                DeleteNode(node_id, io)
                => /\ generated_nodes' =
                          delete_node_removed(Current, node_id).generated_nodes
                   /\ generated_edges' =
                          delete_node_removed(Current, node_id).generated_edges
                   /\ deleted_sample_nodes' =
                          delete_node_removed(Current, node_id).deleted_sample_nodes
          /\ ClearAllGraphData(io)
                => /\ generated_nodes' = <<>>
                   /\ generated_edges' = <<>>
                   /\ deleted_sample_nodes' = deleted_sample_nodes \cup SampleNodeIds
          /\ \A t \in TextsIO, tid \in TranscriptIds :
                GenerateGraphFromText(t, tid, io)
                => /\ generated_nodes' =
                          generate_merged(Current, t, tid).generated_nodes
                   /\ generated_edges' =
                          generate_merged(Current, t, tid).generated_edges
                   /\ deleted_sample_nodes' = deleted_sample_nodes]_vars

\* the attributes are what _load_generated_data reads from the snapshot file
MemoryMatchesFile == load_generated_data(Current) = Current

\* C11: after each of generate_graph_from_text, delete_node and
\* clear_all_graph_data returns, generated_nodes, generated_edges and
\* deleted_sample_nodes are equal to the nodes, edges and
\* deleted_sample_nodes stored in the snapshot file.
C11_MemoryEqualsSnapshot ==
    [][( \/ \E t \in TextsIO, tid \in TranscriptIds, io \in SaveOutcomes :
              GenerateGraphFromText(t, tid, io)
         \/ \E node_id \in DeleteTargets, io \in SaveOutcomes :
              DeleteNode(node_id, io)
         \/ \E io \in SaveOutcomes : ClearAllGraphData(io) )
       => MemoryMatchesFile']_vars

\* C12: when the snapshot file is missing or cannot be parsed,
\* _load_generated_data sets generated_nodes, generated_edges and
\* deleted_sample_nodes to empty (and returns normally), whatever the
\* attributes held before.
C12_UnreadableSnapshotLoadsEmpty ==
    \A file \in {NoFile, PartialFile} :
        LET loaded == load_generated_data([Current EXCEPT !.snapshot_file = file])
        IN /\ loaded.generated_nodes = <<>>
           /\ loaded.generated_edges = <<>>
           /\ loaded.deleted_sample_nodes = {}

\* the attributes are all non-empty while the snapshot file is truncated: a
\* load in this state takes the except branch and has something to reset
C12_Witness ==
    /\ snapshot_file.state = "partial"
    /\ generated_nodes # <<>>
    /\ generated_edges # <<>>
    /\ deleted_sample_nodes # {}

\* C13: clear_all_graph_data empties generated_nodes and generated_edges,
\* adds every seed node id to deleted_sample_nodes, persists that state, and
\* returns nodes_removed = generated nodes before the call + number of seed
\* nodes and edges_removed = generated edges before the call + number of
\* seed edges.
C13_ClearEmptiesTombstonesPersistsCounts ==
    [][\A io \in SaveOutcomes :
          ClearAllGraphData(io)
          => /\ generated_nodes' = <<>>
             /\ generated_edges' = <<>>
             /\ SampleNodeIds \subseteq deleted_sample_nodes'
             /\ snapshot_file' = CompleteFile(<<>>, <<>>, deleted_sample_nodes')
             /\ clear_all_graph_data_result(Current).nodes_removed
                    = Len(generated_nodes) + Len(SampleNodes)
             /\ clear_all_graph_data_result(Current).edges_removed
                    = Len(generated_edges) + Len(SampleEdges)]_vars

HasEntity(entities, name, type) ==
    \E i \in 1..Len(entities) :
        entities[i].name = Chars(name) /\ entities[i].type = type

\* C15: extract_entities never returns an entity whose confidence is below
\* 0.6 (60 hundredths), whatever the type, casing and length of the
\* candidates that pass the filters.
C15_ConfidenceFloor ==
    returned.call = "extract_entities"
    => \A i \in 1..Len(returned.value) : returned.value[i].confidence >= 60

\* extract_entities has returned an entity for a text in which another
\* candidate passed the filters with a confidence below 0.6
C15_Witness ==
    /\ returned.call = "extract_entities"
    /\ returned.value # <<>>
    /\ \E i \in 1..Len(FilteredEntities(transcript_text)) :
          FilteredEntities(transcript_text)[i].confidence < 60

\* C16: extract_facts never returns more than 20 items, and what it returns
\* are the first qualifying sentences of the text (longer than 10
\* characters after strip(), with a factual indicator), in the order of the
\* text.
C16_FactCap ==
    returned.call = "extract_facts"
    => LET pieces == SplitSentences(transcript_text)
           qualifying == {k \in 1..Len(pieces) :
                             /\ Len(Strip(pieces[k])) > 10
                             /\ is_factual_sentence(Strip(pieces[k]))}
       IN /\ Len(returned.value) <= 20
          /\ Len(returned.value) = Min(20, Cardinality(qualifying))
          /\ \A i \in 1..Len(returned.value) :
                returned.value[i] = Strip(pieces[Nth(qualifying, i)])

\* extract_facts has returned 20 facts for a text with more than 20
\* qualifying sentences and with sentences that do not qualify among the
\* first of them
C16_Witness ==
    /\ returned.call = "extract_facts"
    /\ Len(returned.value) = 20
    /\ Len(QualifyingSentences(transcript_text)) > 20
    /\ Len(SplitSentences(transcript_text)) > 22

\* C17: for "Tim Cook is the CEO of Apple Inc." the pattern extractor
\* returns entities that include Tim Cook as PERSON and Apple Inc as
\* ORGANIZATION, and relationships that include Tim Cook -CEO_OF-> Apple Inc.
C17_TimCookScenario ==
    transcript_text = Sentence(1)
    => /\ returned.call = "extract_entities"
          => /\ HasEntity(returned.value, "Tim Cook", "PERSON")
             /\ HasEntity(returned.value, "Apple Inc", "ORGANIZATION")
       /\ returned.call = "extract_relationships"
          => \E i \in 1..Len(returned.value) :
                /\ returned.value[i].source = Chars("Tim Cook")
                /\ returned.value[i].target = Chars("Apple Inc")
                /\ returned.value[i].type = "CEO_OF"

\* C18: generate_graph_from_text (of a service without generated data) on
\* a text that contains no uppercase letter returns entities_created = 0
\* and adds no node to generated_nodes.
C18_NoUppercaseNoEntities ==
    (returned.call = "generate_graph_from_text" /\ ~AnyUpper(transcript_text))
    => /\ returned.value.entities_created = 0
       /\ generated_nodes = <<>>

Greatest(S) == CHOOSE x \in S : \A y \in S : x >= y

\* the positions of the nodes whose lower-case label is key
LabelHolders(nodes, key) ==
    {i \in 1..Len(nodes) : Lower(nodes[i].label) = key}

\* the positions of the nodes that have key among the words of their label
WordHolders(nodes, key) ==
    {i \in 1..Len(nodes) :
        \E w \in 1..Len(Split(Lower(nodes[i].label))) :
            Split(Lower(nodes[i].label))[w] = key}

\* the positions of the entities of the batch whose name is not blank
NamedEntities == {i \in 1..Len(extracted_entities) :
                    Strip(extracted_entities[i].name) # <<>>}

\* C19: in the name index of one batch a single-word alias never replaces
\* an existing mapping (a key that is the full label of a node maps to the
\* last node with that label, any other key to the first node that has it
\* as a word longer than 2), the lower-case full label of every node of the
\* batch maps to a node with that label, and an entity whose name is empty
\* or blank gets no node and no index entry.
C19_NameIndex ==
    returned.call = "generate_graph_from_text"
    => /\ \A p \in 1..Len(name_to_id) :
             LET key == name_to_id[p].key
                 full == LabelHolders(generated_nodes, key)
                 part == WordHolders(generated_nodes, key)
             IN IF full # {}
                THEN name_to_id[p].id = generated_nodes[Greatest(full)].id
                ELSE /\ Len(key) > 2
                     /\ part # {}
                     /\ name_to_id[p].id = generated_nodes[Least(part)].id
       /\ \A i \in 1..Len(generated_nodes) :
             \E p \in 1..Len(name_to_id) :
                /\ name_to_id[p].key = Lower(generated_nodes[i].label)
                /\ \E j \in 1..Len(generated_nodes) :
                      /\ generated_nodes[j].id = name_to_id[p].id
                      /\ Lower(generated_nodes[j].label)
                            = Lower(generated_nodes[i].label)
       /\ Len(generated_nodes) = Cardinality(NamedEntities)
       /\ \A k \in 1..Len(generated_nodes) :
             /\ generated_nodes[k].label
                   = Strip(extracted_entities[Nth(NamedEntities, k)].name)
             /\ generated_nodes[k].id
                   = NodeId(returned.value.transcript_id,
                            Nth(NamedEntities, k) - 1)
       /\ \A p \in 1..Len(name_to_id) :
             /\ Strip(name_to_id[p].key) # <<>>
             /\ name_to_id[p].id \in Ids(generated_nodes)

\* the call has built the index of a batch with a blank name, in which a
\* word of one label is the full label of a later node and a word of
\* another later label
C19_Witness ==
    /\ returned.call = "generate_graph_from_text"
    /\ Cardinality(NamedEntities) < Len(extracted_entities)
    /\ \E p \in 1..Len(name_to_id) :
          LET key == name_to_id[p].key
              full == LabelHolders(generated_nodes, key)
              part == WordHolders(generated_nodes, key)
          IN /\ full # {}
             /\ \E i \in part : i \notin full /\ i < Greatest(full)

\* C20: run_sync_cycle runs the three sub-tasks in the order
\* conversations, summaries, graph whichever of them was hit by an
\* exception, sets last_sync to the time of the cycle and returns status
\* success.
C20_SyncCycleRunsAllTasks ==
    returned.call = "run_sync_cycle"
    => /\ Len(sync_steps) = 3
       /\ sync_steps[1].task = "conversations"
       /\ sync_steps[2].task = "summaries"
       /\ sync_steps[3].task = "graph"
       /\ returned.value.status = "success"
       /\ last_sync # None
       /\ last_sync = returned.value.results.sync_time

\* a second cycle has completed in which the first sub-task was hit by an
\* exception and the second one deleted a duplicate
C20_Witness ==
    /\ returned.call = "run_sync_cycle"
    /\ Len(sync_steps) = 3
    /\ sync_steps[1].fault
    /\ sync_steps[2].deleted > 0
    /\ last_sync > 1

\* every item of the list before is an item of the list after
KeptIn(before, after) ==
    \A i \in 1..Len(before) : \E j \in 1..Len(after) : after[j] = before[i]

\* C26: a call of import_text or of generate_graph_from_text leaves every
\* node of generated_nodes and every edge of generated_edges in place,
\* unchanged.
C26_ImportsAccumulate ==
    /\ \A t \in Texts, tid \in TranscriptIds :
          LET after == generate_graph_from_text(Current, t, tid, "ok")
          IN /\ KeptIn(generated_nodes, after.generated_nodes)
             /\ KeptIn(generated_edges, after.generated_edges)
    /\ LET after == create_entities_locally(Current, "ok")
       IN /\ KeptIn(generated_nodes, after.generated_nodes)
          /\ KeptIn(generated_edges, after.generated_edges)

\* C27: a relationship side whose lower-cased text equals a key of the
\* name index is resolved to the node id stored under that key, whatever
\* the other keys of the index are.
C27_ExactMatchPreferred ==
    returned.call = "generate_graph_from_text"
    => \A p \in 1..Len(name_to_id) :
          BestMatch(name_to_id, name_to_id[p].key, 0, NoMatch) = name_to_id[p].id

\* C29: entities_created and relationships_created returned by
\* generate_graph_from_text are the numbers of nodes and edges the call
\* added to generated_nodes and generated_edges.
C29_CreatedCountsWhatWasAdded ==
    \A t \in Texts, tid \in TranscriptIds :
        LET after == generate_graph_from_text(Current, t, tid, "ok")
            result == generate_graph_from_text_result(Current, t, tid)
        IN /\ result.entities_created
                = Len(after.generated_nodes) - Len(generated_nodes)
           /\ result.relationships_created
                = Len(after.generated_edges) - Len(generated_edges)

\* C30: the nodes and edges generate_graph_from_text returns are those
\* get_combined_graph_data returns right after the call, so they hold no
\* tombstoned seed node and no seed edge touching one.
C30_ReturnedIsCombinedView ==
    \A t \in Texts, tid \in TranscriptIds :
        LET after == generate_graph_from_text(Current, t, tid, "ok")
            result == generate_graph_from_text_result(Current, t, tid)
        IN /\ result.nodes = get_combined_graph_data(after).nodes
           /\ result.edges = get_combined_graph_data(after).edges

\* no two records of the store share their normalized text
NoTwoShare(store) ==
    Cardinality({Normalized(r) : r \in store}) = Cardinality(store)

\* the newest record of every normalized text of before is in after
LatestSurvive(before, after) ==
    (before \ OlderDuplicates(before)) \subseteq after

\* C21: a pass of auto_deduplicate_conversations (of
\* auto_deduplicate_summaries) leaves no two records with the same
\* normalized text, keeps the latest record of every group, and a second
\* pass deletes nothing, however many records are stored.
C21_OnePassRemovesAllDuplicates ==
    /\ LET after == deduplicated_conversations(conversation_store)
       IN /\ NoTwoShare(after)
          /\ LatestSurvive(conversation_store, after)
          /\ deduplicated_conversations(after) = after
    /\ \A summaries \in search_summaries(summary_store, DedupLimit) :
          LET after == deduplicated_summaries(summary_store, summaries)
          IN /\ NoTwoShare(after)
             /\ LatestSurvive(summary_store, after)
             /\ \A again \in search_summaries(after, DedupLimit) :
                   deduplicated_summaries(after, again) = after

\* C28: duplicates_removed returned by auto_deduplicate_conversations and
\* by auto_deduplicate_summaries is the number of records the pass deleted
\* from the store.
C28_CountIsWhatWasDeleted ==
    returned.call \in {"auto_deduplicate_conversations",
                       "auto_deduplicate_summaries"}
    => returned.value.duplicates_removed = sync_steps[1].deleted

\* the sync cycles the call in slot i of l has started
CyclesOf(l, i) == IF i \in DOMAIN l THEN l[i].cycles ELSE 0

\* C22: in the loop of start_background_sync a sync cycle starts only when
\* last_sync is unset or at least sync_interval has passed since last_sync,
\* and the cycle leaves last_sync at the time of its end.
C22_CycleOnlyWhenDue ==
    [][\A i \in DOMAIN loops' :
          CyclesOf(loops', i) > CyclesOf(loops, i)
          => /\ last_sync = None \/ clock - last_sync >= SyncIntervalMinutes
             /\ last_sync' = clock'
             /\ clock' >= clock]_vars

\* a loop has run two cycles, the second when the interval had passed
C22_Witness ==
    \E i \in DOMAIN loops :
        /\ loops[i].cycles >= 2
        /\ last_sync >= SyncIntervalMinutes

\* C23: once stop_background_sync was called, the loop starts no further
\* sync cycle, and its next step is its exit, which leaves is_running False.
C23_StoppedLoopExits ==
    [][\A i \in DOMAIN loops :
          loops[i].stopped
          => /\ loops'[i].cycles = loops[i].cycles
             /\ loops'[i] # loops[i]
                => loops'[i].pc = "done" /\ ~is_running']_vars

\* the calls of start_background_sync that are in their loop
ActiveLoops == {i \in DOMAIN loops : loops[i].pc = "sleeping"}

\* C24: at most one call of start_background_sync is in its loop at any
\* time, whatever the order of the calls of start_background_sync and
\* stop_background_sync.
C24_AtMostOneLoop == Cardinality(ActiveLoops) <= 1

\* the ids of a list of nodes
IdsOf(nodes) == {nodes[k].id : k \in DOMAIN nodes}

\* C25: with two instances sharing the snapshot file, the file holds what
\* the instance that saved last had in memory and nothing of the other, so
\* a node one instance imported and saved can be missing from the file
\* after the other instance's import, with no delete_node or
\* clear_all_graph_data at all.
C25_SnapshotOfLastWriter ==
    snapshot_file.state = "complete"
    => \/ snapshot_file = CompleteFile(generated_nodes, generated_edges,
                                       deleted_sample_nodes)
       \/ snapshot_file = CompleteFile(peer_nodes, peer_edges, peer_deleted)

\* the router's instance holds a node it imported that the file has lost
\* to the other instance's import
C25_Witness ==
    /\ snapshot_file = CompleteFile(peer_nodes, peer_edges, peer_deleted)
    /\ peer_nodes # <<>>
    /\ \E k \in DOMAIN generated_nodes :
          generated_nodes[k].id \notin IdsOf(snapshot_file.nodes)

TypeOK ==
    /\ deleted_sample_nodes \subseteq SampleNodeIds
    /\ running \in BOOLEAN

====
